---- MODULE Spec2Model ----
(***************************************************************************)
(* Verification model of the ray tracer: AABB algebra (hit/aabb.rs),       *)
(* aggregate and BVH traversal (object/world.rs, hit/bvh.rs), and the      *)
(* recursive integrator ray_color (lib.rs).                                *)
(*                                                                         *)
(* Numbers.  The program computes in f64.  The model computes on whole     *)
(* numbers extended with the three IEEE values the code can produce from   *)
(* a division by a zero direction component: +infinity, -infinity and NaN. *)
(* All scenes and rays are drawn from families on which every f64          *)
(* operation of the modelled code is exact (integer centres, unit radii,   *)
(* axis-parallel unit directions).                                         *)
(***************************************************************************)
EXTENDS Integers, Sequences, FiniteSets, TLC

VARIABLES
    \* ---- AABB::merge -------------------------------------------------
    mA, mB, mC,          \* three AABB values held by the program
    mAB, mBA, mAA, mBC,  \* merge(a,b), merge(b,a), merge(a,a), merge(b,c)
    mL, mR,              \* merge(merge(a,b),c), merge(a,merge(b,c))
    mPc,
    \* ---- World / BVH -------------------------------------------------
    objects,             \* the Vec<Box<dyn Hit>> handed to World / BVH::new
    bvh,                 \* the tree built by BVH::new
    ray, tMin, tMax,     \* arguments of the last hit query
    bvhHit,              \* result of BVH::hit
    worldHit,            \* result of World::hit
    worldCalls,          \* t_max handed to each element by World::hit
    sPc,
    \* ---- ray_color ---------------------------------------------------
    rcDepth,             \* depth argument of the active call
    rcStack,             \* suspended callers: <<emitted, attenuation>>
    rcRet,               \* value returned by the call that just finished
    rcBackground,        \* background argument
    rcHitTests,          \* number of scene.hit calls made so far
    rcMatCalls,          \* number of material.scatter calls made so far
    rcLevel,             \* what the last executed level of ray_color did
    rcPc,
    \* ---- one primitive: sphere, rectangle, block ----------------------
    shape,               \* the primitive under test
    shRay, shTMin, shTMax,  \* arguments of the last hit query on it
    shHit,               \* result of its hit
    shBox,               \* result of its bounding_box
    shPc,
    \* ---- Rotate::bounding_box ----------------------------------------
    rotate,              \* the Rotate object: child, sin, cos, axis
    rotTimeRange,        \* its field time_range: <<>> or <<time_from, time_to>>
    rotBoundingBox,      \* its field bounding_box: NoBox or an AABB
    rotLog,              \* the calls made so far: pair, computed or cached, result
    rotPc,
    \* ---- Color::format_color -----------------------------------------
    fcColor,             \* the colour handed to format_color
    fcOut,               \* the three integers of the formatted string
    fcPc,
    \* ---- RayTracer::trace_in -----------------------------------------
    tiWidth, tiHeight,   \* image_width, image_height
    tiPanics,            \* the pixels (flat index) whose tracing panics
    tiBuffer,            \* the lines written to the output buffer
    tiColors,            \* the result slot of every pixel, in flat_map order
    tiTraced,            \* how many times trace_single ran for every pixel
    tiOutOfOrder,        \* some pixel finished before a pixel of lower index
    tiPc,
    \* ---- RayTracer::trace_single -------------------------------------
    tsN,                 \* samples_per_pixel
    tsI, tsJ,            \* the pixel, as trace_in passes it
    tsWidth, tsHeight,   \* image_width, image_height
    tsRun,               \* the loop variable run
    tsSum,               \* pixel_color_sum
    tsLog,               \* the calls of ray_color made so far
    tsOut,               \* the colour returned
    tsPc,
    \* ---- concurrent Rotate::bounding_box calls -----------------------
    lkRotate,            \* the Rotate the calls are made on
    lkDepth,             \* how many Rotate are nested: 1, or 2 when the child is a Rotate
    lkTimeRange,         \* time_range of the Rotate of every level
    lkBoundingBox,       \* bounding_box of the Rotate of every level
    lkReaders,           \* the threads holding a read guard of time_range, per level
    lkThreads,           \* every thread's position, arguments and locals
    lkCalls,             \* the number of calls started
    \* ---- the constructions of a Ray ----------------------------------
    ryRay,               \* the Ray the last construction returned, or Panic
    ryAsked,             \* the direction handed to Ray::new, <<>> when none was
    ryPath,              \* the function that asked for the Ray
    ryPc,
    \* ---- a render: the scene is built, then traced by the workers -----
    rdScene,             \* the scene graph, the two caches of its Rotate included
    rdMaxDepth,          \* max_depth of the RayTracer
    rdPhase,             \* "scene", "built", "render" or "done"
    rdWorkers,           \* the call of trace_single every worker is in
    rdTraced             \* the pixels handed to trace_single so far

mergeVars == <<mA, mB, mC, mAB, mBA, mAA, mBC, mL, mR, mPc>>
sceneVars == <<objects, bvh, ray, tMin, tMax, bvhHit, worldHit, worldCalls, sPc>>
colorVars == <<rcDepth, rcStack, rcRet, rcBackground, rcHitTests, rcMatCalls,
               rcLevel, rcPc>>
shapeVars == <<shape, shRay, shTMin, shTMax, shHit, shBox, shPc>>
rotVars == <<rotate, rotTimeRange, rotBoundingBox, rotLog, rotPc>>
fmtVars == <<fcColor, fcOut, fcPc>>
traceVars == <<tiWidth, tiHeight, tiPanics, tiBuffer, tiColors, tiTraced,
               tiOutOfOrder, tiPc>>
sampleVars == <<tsN, tsI, tsJ, tsWidth, tsHeight, tsRun, tsSum, tsLog, tsOut, tsPc>>
lockVars == <<lkRotate, lkDepth, lkTimeRange, lkBoundingBox, lkReaders, lkThreads, lkCalls>>
rayVars == <<ryRay, ryAsked, ryPath, ryPc>>
renderVars == <<rdScene, rdMaxDepth, rdPhase, rdWorkers, rdTraced>>
vars == <<mergeVars, sceneVars, colorVars, shapeVars, rotVars, fmtVars, traceVars,
          sampleVars, lockVars, rayVars, renderVars>>

\* what the operations of one part leave alone: every other part
notMergeVars == <<sceneVars, colorVars, shapeVars, rotVars, fmtVars, traceVars, sampleVars, lockVars,
    rayVars, renderVars>>
notSceneVars == <<mergeVars, colorVars, shapeVars, rotVars, fmtVars, traceVars, sampleVars, lockVars,
    rayVars, renderVars>>
notColorVars == <<mergeVars, sceneVars, shapeVars, rotVars, fmtVars, traceVars, sampleVars, lockVars,
    rayVars, renderVars>>
notShapeVars == <<mergeVars, sceneVars, colorVars, rotVars, fmtVars, traceVars, sampleVars, lockVars,
    rayVars, renderVars>>
notRotVars == <<mergeVars, sceneVars, colorVars, shapeVars, fmtVars, traceVars, sampleVars, lockVars,
    rayVars, renderVars>>
notFmtVars == <<mergeVars, sceneVars, colorVars, shapeVars, rotVars, traceVars, sampleVars, lockVars,
    rayVars, renderVars>>
notTraceVars == <<mergeVars, sceneVars, colorVars, shapeVars, rotVars, fmtVars, sampleVars, lockVars,
    rayVars, renderVars>>
notSampleVars == <<mergeVars, sceneVars, colorVars, shapeVars, rotVars, fmtVars, traceVars, lockVars,
    rayVars, renderVars>>
notLockVars == <<mergeVars, sceneVars, colorVars, shapeVars, rotVars, fmtVars, traceVars,
                sampleVars, rayVars, renderVars>>
notRayVars == <<mergeVars, sceneVars, colorVars, shapeVars, rotVars, fmtVars, traceVars,
               sampleVars, lockVars, renderVars>>
notRenderVars == <<mergeVars, sceneVars, colorVars, shapeVars, rotVars, fmtVars, traceVars,
                  sampleVars, lockVars, rayVars>>

----------------------------------------------------------------------------
(* Bounds of the model *)

MaxCoord == 1       \* box corners of the merge specification lie in 0..MaxCoord

----------------------------------------------------------------------------
(* f64 values *)

Inf == 1000000       \* f64::INFINITY
NegInf == 0 - Inf    \* f64::NEG_INFINITY
NaN == Inf + 1       \* the result of 0.0 / 0.0

Axes == 1..3

Abs(x) == IF x < 0 THEN 0 - x ELSE x

\* f64::min / f64::max: a NaN operand is ignored
FMin(x, y) == IF x = NaN THEN y ELSE IF y = NaN THEN x ELSE IF x < y THEN x ELSE y
FMax(x, y) == IF x = NaN THEN y ELSE IF y = NaN THEN x ELSE IF x > y THEN x ELSE y

\* IEEE comparison: false as soon as one side is NaN
FLe(x, y) == x # NaN /\ y # NaN /\ x <= y
FLt(x, y) == x # NaN /\ y # NaN /\ x < y

\* x / d for a finite x and a direction component d in {-1, 0, 1}:
\* x / 0.0 is NaN for x = 0 and an infinity with the sign of x otherwise
FDiv(x, d) ==
    IF d = 0
    THEN (IF x = 0 THEN NaN ELSE IF x > 0 THEN Inf ELSE NegInf)
    ELSE x * d

\* Vec3::min / Vec3::max (apply_binary of f64::min / f64::max)
VecMin(p, q) == [i \in Axes |-> FMin(p[i], q[i])]
VecMax(p, q) == [i \in Axes |-> FMax(p[i], q[i])]
VecAdd(p, q) == [i \in Axes |-> p[i] + q[i]]
VecSub(p, q) == [i \in Axes |-> p[i] - q[i]]
VecScale(k, p) == [i \in Axes |-> k * p[i]]
Dot(p, q) == p[1] * q[1] + p[2] * q[2] + p[3] * q[3]

----------------------------------------------------------------------------
(* AABB (hit/aabb.rs) *)

Panic == [panic |-> TRUE]     \* the operation aborted on a failed assertion
Unset == [unset |-> TRUE]     \* not computed yet
NoColor == <<>>               \* no colour computed yet

EMPTY == [min |-> <<Inf, Inf, Inf>>, max |-> <<NegInf, NegInf, NegInf>>]

\* AABB::new asserts min <= max on the three axes
AABBNew(mn, mx) ==
    IF \A i \in Axes : FLe(mn[i], mx[i])
    THEN [min |-> mn, max |-> mx]
    ELSE Panic

\* variants of merge: one that forgets the other box's max corner, one that
\* takes the overlap instead of the hull
MergeKeepsOwnMax(a, b) == AABBNew(VecMin(a.min, b.min), a.max)

MergeOverlap(a, b) == AABBNew(VecMax(a.min, b.min), VecMin(a.max, b.max))

Merge(a, b) == AABBNew(VecMin(a.min, b.min), VecMax(a.max, b.max))

\* a merge whose operand is the result of a call that already aborted
MergeP(a, b) == IF a = Panic \/ b = Panic THEN Panic ELSE Merge(a, b)

IsValidBox(a) == a # Panic /\ a # Unset /\ \A i \in Axes : a.min[i] <= a.max[i]

Contains(outer, inner) ==
    \A i \in Axes : outer.min[i] <= inner.min[i] /\ inner.max[i] <= outer.max[i]

Coords == 0..MaxCoord
Points == {<<x, y, z>> : x \in Coords, y \in Coords, z \in Coords}
ValidBoxes == {[min |-> p, max |-> q] : p \in Points, q \in Points} \cap
              {b \in [min : Points, max : Points] : \A i \in Axes : b.min[i] <= b.max[i]}
CubeBoxes == {[min |-> <<l, l, l>>, max |-> <<h, h, h>>] : l \in Coords, h \in Coords} \cap ValidBoxes
\* the AABB values the program holds: boxes built by AABB::new, and the sentinel
BoxValues == ValidBoxes \cup {EMPTY}

----------------------------------------------------------------------------
(* Specification of the merge algebra *)

SceneIdle ==
    /\ objects = <<>> /\ bvh = Unset /\ ray = Unset /\ tMin = 0 /\ tMax = 0
    /\ bvhHit = Unset /\ worldHit = Unset /\ worldCalls = <<>> /\ sPc = "idle"

ColorIdle ==
    /\ rcDepth = 0 /\ rcStack = <<>> /\ rcRet = NoColor /\ rcBackground = <<0, 0, 0>>
    /\ rcHitTests = 0 /\ rcMatCalls = 0 /\ rcLevel = Unset /\ rcPc = "idle"

MergeIdle ==
    /\ mA = Unset /\ mB = Unset /\ mC = Unset /\ mAB = Unset /\ mBA = Unset
    /\ mAA = Unset /\ mBC = Unset /\ mL = Unset /\ mR = Unset /\ mPc = "idle"

ShapeIdle ==
    /\ shape = Unset /\ shRay = Unset /\ shTMin = 0 /\ shTMax = 0
    /\ shHit = Unset /\ shBox = Unset /\ shPc = "idle"

RotIdle ==
    /\ rotate = Unset /\ rotTimeRange = <<>> /\ rotBoundingBox = Unset
    /\ rotLog = <<>> /\ rotPc = "idle"

FmtIdle == fcColor = NoColor /\ fcOut = NoColor /\ fcPc = "idle"

TraceIdle ==
    /\ tiWidth = 0 /\ tiHeight = 0 /\ tiPanics = {} /\ tiBuffer = <<>>
    /\ tiColors = <<>> /\ tiTraced = <<>> /\ tiOutOfOrder = FALSE /\ tiPc = "idle"

SampleIdle ==
    /\ tsN = 0 /\ tsI = 0 /\ tsJ = 0 /\ tsWidth = 0 /\ tsHeight = 0 /\ tsRun = 0
    /\ tsSum = NoColor /\ tsLog = <<>> /\ tsOut = NoColor /\ tsPc = "idle"

LockIdle ==
    /\ lkRotate = Unset /\ lkDepth = 0 /\ lkTimeRange = <<>> /\ lkBoundingBox = <<>>
    /\ lkReaders = <<>> /\ lkThreads = <<>> /\ lkCalls = 0

RayIdle == ryRay = Unset /\ ryAsked = <<>> /\ ryPath = "none" /\ ryPc = "idle"

RenderIdle ==
    /\ rdScene = Unset /\ rdMaxDepth = 0 /\ rdPhase = "idle" /\ rdWorkers = <<>>
    /\ rdTraced = 0

\* every part but the one a specification is about is parked
OthersIdle(part) ==
    /\ IF part = "merge" THEN TRUE ELSE MergeIdle
    /\ IF part = "scene" THEN TRUE ELSE SceneIdle
    /\ IF part = "color" THEN TRUE ELSE ColorIdle
    /\ IF part = "shape" THEN TRUE ELSE ShapeIdle
    /\ IF part = "rotate" THEN TRUE ELSE RotIdle
    /\ IF part = "format" THEN TRUE ELSE FmtIdle
    /\ IF part = "trace" THEN TRUE ELSE TraceIdle
    /\ IF part = "sample" THEN TRUE ELSE SampleIdle
    /\ IF part = "lock" THEN TRUE ELSE LockIdle
    /\ IF part = "ray" THEN TRUE ELSE RayIdle
    /\ IF part = "render" THEN TRUE ELSE RenderIdle

InitMerge ==
    /\ mA \in BoxValues
    /\ mB \in BoxValues
    /\ mC = Unset
    /\ mAB = Unset /\ mBA = Unset /\ mAA = Unset /\ mBC = Unset
    /\ mL = Unset /\ mR = Unset
    /\ mPc = "start"
    /\ OthersIdle("merge")

\* a.merge(&b), b.merge(&a), a.merge(&a)
MergePair ==
    /\ mPc = "start"
    /\ mAB' = Merge(mA, mB)
    /\ mBA' = Merge(mB, mA)
    /\ mAA' = Merge(mA, mA)
    /\ mPc' = "pair"
    /\ UNCHANGED <<mA, mB, mC, mBC, mL, mR>>
    /\ UNCHANGED notMergeVars

\* a.merge(&b).merge(&c) and a.merge(&b.merge(&c)) for a third box c
MergeNested ==
    /\ mPc = "pair"
    /\ \E c \in CubeBoxes \cup {EMPTY} :
         /\ mC' = c
         /\ mBC' = Merge(mB, c)
         /\ mL' = MergeP(mAB, c)
         /\ mR' = MergeP(mA, Merge(mB, c))
    /\ mPc' = "done"
    /\ UNCHANGED <<mA, mB, mAB, mBA, mAA>>
    /\ UNCHANGED notMergeVars

NextMerge == MergePair \/ MergeNested

SpecMerge == InitMerge /\ [][NextMerge]_vars

----------------------------------------------------------------------------
(* Rays, spheres, AABB::is_hit (ray.rs, object/sphere.rs, hit/aabb.rs) *)

MaxObjects == 3     \* longest object list handed to World / BVH::new
MaxCenter == 1      \* sphere centres have x in 0..MaxCenter

NoHit == [hit |-> FALSE]      \* Option::None of a hit query
NoChild == [kind |-> "none"]  \* Option::None of a BVH child

\* Ray::at
RayAt(r, t) == VecAdd(r.origin, VecScale(t, r.direction))

\* the non-negative square root, defined on the perfect squares
Sqrt(n) == CHOOSE q \in 0..n : q * q = n

\* Sphere::new; the material stands for the Arc<dyn Material> of the sphere
Sphere(c, r, mat) == [kind |-> "sphere", center |-> c, radius |-> r, material |-> mat]

\* Sphere::bounding_box
SphereBoundingBox(s) ==
    LET offset == <<s.radius, s.radius, s.radius>>
    IN  AABBNew(VecSub(s.center, offset), VecAdd(s.center, offset))

\* a variant of the root selection that tries the far root first
FindRootFarFirst(root1, root2, tmin, tmax) ==
    IF root2 >= tmin /\ root2 <= tmax THEN <<root2>>
    ELSE IF root1 >= tmin /\ root1 <= tmax THEN <<root1>>
    ELSE <<>>

\* sphere.rs:126-128  roots.into_iter().find(|root| root >= &t_min && root <= &t_max)
FindRoot(root1, root2, tmin, tmax) ==
    IF root1 >= tmin /\ root1 <= tmax THEN <<root1>>
    ELSE IF root2 >= tmin /\ root2 <= tmax THEN <<root2>>
    ELSE <<>>

\* object/sphere.rs hit(): the first root of the quadratic inside [t_min, t_max]
SphereHit(s, r, tmin, tmax) ==
    LET oc == VecSub(r.origin, s.center)
        a == Dot(r.direction, r.direction)
        h == Dot(oc, r.direction)
        c == Dot(oc, oc) - s.radius * s.radius
        discriminant == h * h - a * c
    IN  IF discriminant < 0 THEN NoHit
        ELSE LET root1 == ((0 - h) - Sqrt(discriminant)) \div a
                 root2 == ((0 - h) + Sqrt(discriminant)) \div a
                 found == FindRoot(root1, root2, tmin, tmax)
             IN  IF found = <<>> THEN NoHit
                 ELSE LET t == found[1]
                          point == RayAt(r, t)
                      IN  [hit |-> TRUE, t |-> t, point |-> point,
                           normal |-> [i \in Axes |-> (point[i] - s.center[i]) \div s.radius],
                           material |-> s.material]

\* AABB::is_hit, axes i..3 of the slab loop
RECURSIVE IsHitFrom(_, _, _, _, _)
IsHitFrom(box, r, i, tmin, tmax) ==
    IF i > 3 THEN TRUE
    ELSE LET origin == r.origin[i]
             direction == r.direction[i]
             q0 == FDiv(box.min[i] - origin, direction)
             q1 == FDiv(box.max[i] - origin, direction)
             t0 == IF direction < 0 THEN q1 ELSE q0
             t1 == IF direction < 0 THEN q0 ELSE q1
             tmin2 == FMax(t0, tmin)
             tmax2 == FMin(t1, tmax)
         IN  IF FLe(tmax2, tmin2) THEN FALSE
             ELSE IsHitFrom(box, r, i + 1, tmin2, tmax2)

IsHit(box, r, tmin, tmax) == IsHitFrom(box, r, 1, tmin, tmax)

----------------------------------------------------------------------------
(* World (object/world.rs) *)

\* the hits of the elements, in collection order (iter().filter_map(..))
RECURSIVE FilterMapHits(_, _, _, _)
FilterMapHits(objs, r, tmin, tmax) ==
    IF objs = <<>> THEN <<>>
    ELSE LET h == SphereHit(Head(objs), r, tmin, tmax)
             rest == FilterMapHits(Tail(objs), r, tmin, tmax)
         IN  IF h = NoHit THEN rest ELSE <<h>> \o rest

\* variants of min_by: one that keeps the latest of equal minima, one that
\* keeps the running element without comparing
RECURSIVE MinByTLastWins(_, _)
MinByTLastWins(best, hits) ==
    IF hits = <<>> THEN best
    ELSE MinByTLastWins(IF Head(hits).t <= best.t THEN Head(hits) ELSE best, Tail(hits))

MinByTFirstHit(best, hits) == best

\* Iterator::min_by with partial_cmp on t: the running minimum is replaced
\* only by a strictly smaller element, so the first of several equal minima
\* is returned
RECURSIVE MinByT(_, _)
MinByT(best, hits) ==
    IF hits = <<>> THEN best
    ELSE MinByT(IF Head(hits).t < best.t THEN Head(hits) ELSE best, Tail(hits))

\* World::hit
WorldHit(objs, r, tmin, tmax) ==
    LET hits == FilterMapHits(objs, r, tmin, tmax)
    IN  IF hits = <<>> THEN NoHit ELSE MinByT(Head(hits), Tail(hits))

\* the t_max World::hit hands to each element: the caller's, for every element
WorldCallTMax(objs, r, tmin, tmax) == [i \in 1..Len(objs) |-> tmax]

----------------------------------------------------------------------------
(* Objects and their bounding boxes (hit/mod.rs, object/*.rs) *)

NoBox == [none |-> TRUE]      \* Option::None of a bounding box

\* MovingSphere over the time range 0.0..1.0, and a Hit without a bounding box
MovingSphere(c0, c1, r, mat) ==
    [kind |-> "moving", center_from |-> c0, center_to |-> c1, radius |-> r,
     material |-> mat]
\* a World without objects: its bounding_box reduces nothing and is None
Unbounded == [kind |-> "unbounded"]

\* MovingSphere::center: lerp asserts a ratio in [0, 1]
MovingCenter(ms, time) ==
    IF FLe(0, time) /\ FLe(time, 1)
    THEN VecAdd(VecScale(1 - time, ms.center_from), VecScale(time, ms.center_to))
    ELSE Panic

\* MovingSphere::bounding_box
MovingSphereBoundingBox(ms, tf, tt) ==
    IF MovingCenter(ms, tf) = Panic \/ MovingCenter(ms, tt) = Panic THEN Panic
    ELSE LET offset == <<ms.radius, ms.radius, ms.radius>>
             from == MovingCenter(ms, tf)
             to == MovingCenter(ms, tt)
         IN  MergeP(AABBNew(VecSub(from, offset), VecAdd(from, offset)),
                    AABBNew(VecSub(to, offset), VecAdd(to, offset)))

\* Translate::new(object, offset): any offset is taken
Translate(object, offset) == [kind |-> "translate", object |-> object, offset |-> offset]

\* AABB::move_by adds the offset to both corners and asserts nothing
MoveBy(aabb, offset) ==
    LET add(a, x) == IF x \in {Inf, NegInf, NaN} THEN x ELSE a + x
    IN  [min |-> [i \in Axes |-> add(aabb.min[i], offset[i])],
         max |-> [i \in Axes |-> add(aabb.max[i], offset[i])]]

\* Hit::bounding_box(time_from, time_to) of a child object
RECURSIVE BoundingBox(_, _, _)
BoundingBox(o, tf, tt) ==
    CASE o.kind = "sphere" -> SphereBoundingBox(o)
      [] o.kind = "moving" -> MovingSphereBoundingBox(o, tf, tt)
      [] o.kind = "bvh" -> o.box
      [] o.kind = "translate" ->
           LET inner == BoundingBox(o.object, tf, tt)
           IN  IF inner = NoBox \/ inner = Panic THEN inner ELSE MoveBy(inner, o.offset)
      [] OTHER -> NoBox

----------------------------------------------------------------------------
(* BVH (hit/bvh.rs) *)

\* a variant that takes the empty box where there is none
ExpectOrEmpty(box) == IF box = NoBox THEN EMPTY ELSE box

\* Option::expect("No bounding box in BVHNode constructor")
Expect(box) == IF box = NoBox THEN Panic ELSE box

\* the comparator of sort_objects_by_axis asks every object of the list for
\* its box and compares the minima with partial_cmp: it panics on an object
\* without a box and on a NaN
SortPanics(objs, axis, tf, tt) ==
    \E i \in 1..Len(objs) :
        LET box == Expect(BoundingBox(objs[i], tf, tt))
        IN  box = Panic \/ box.min[axis] = NaN

\* a variant that leaves the list as it was handed over
SortObjectsKeepOrder(objs, axis, tf, tt) == {objs}

\* the results sort_unstable_by may leave: every arrangement of the list
\* that is non-decreasing in the box minimum on the axis
SortObjectsByAxis(objs, axis, tf, tt) ==
    LET n == Len(objs)
        perms == {f \in [1..n -> 1..n] : \A i, j \in 1..n : i # j => f[i] # f[j]}
        key(o) == Expect(BoundingBox(o, tf, tt)).min[axis]
    IN  {[i \in 1..n |-> objs[f[i]]] : f \in
           {g \in perms : \A i \in 1..(n - 1) : key(objs[g[i]]) <= key(objs[g[i + 1]])}}

BVHNode(box, left, right) == [kind |-> "bvh", box |-> box, left |-> left, right |-> right]

\* the bounding box a child of a node answers
ChildBox(child) == IF child.kind = "bvh" THEN child.box ELSE SphereBoundingBox(child)

\* a node over two children, or the panic of the merge of their boxes
NodeOrPanic(lbox, rbox, left, right) ==
    IF lbox = Panic \/ rbox = Panic \/ MergeP(lbox, rbox) = Panic THEN Panic
    ELSE BVHNode(MergeP(lbox, rbox), left, right)

\* BVH::new: the outcomes it can have, a tree or a panic, over the random
\* axis of every level and the arrangements the unstable sort can leave
RECURSIVE BVHNew(_, _, _)
BVHNew(objs, tf, tt) ==
    LET len == Len(objs) IN
    CASE len = 0 -> {Panic}
      [] len = 1 ->
           LET box == Expect(BoundingBox(objs[1], tf, tt))
           IN  {IF box = Panic THEN Panic ELSE BVHNode(box, objs[1], NoChild)}
      [] len = 2 ->
           UNION {IF SortPanics(objs, axis, tf, tt) THEN {Panic}
                  ELSE {NodeOrPanic(Expect(BoundingBox(sorted[1], tf, tt)),
                                    Expect(BoundingBox(sorted[2], tf, tt)),
                                    sorted[1], sorted[2])
                        : sorted \in SortObjectsByAxis(objs, axis, tf, tt)}
                  : axis \in Axes}
      [] OTHER ->
           UNION {IF SortPanics(objs, axis, tf, tt) THEN {Panic}
                  ELSE UNION {{IF l = Panic \/ r = Panic THEN Panic
                               ELSE NodeOrPanic(l.box, r.box, l, r)
                               : l \in BVHNew(SubSeq(sorted, 1, len \div 2), tf, tt),
                                 r \in BVHNew(SubSeq(sorted, (len \div 2) + 1, len), tf, tt)}
                              : sorted \in SortObjectsByAxis(objs, axis, tf, tt)}
                  : axis \in Axes}

\* Hit::hit of a boxed child (a sphere or a sub-tree), and BVH::hit
RECURSIVE ChildHit(_, _, _, _)
ChildHit(node, r, tmin, tmax) ==
    IF node.kind = "sphere" THEN SphereHit(node, r, tmin, tmax)
    ELSE IF ~IsHit(node.box, r, tmin, tmax) THEN NoHit
    ELSE LET left == IF node.left = NoChild THEN NoHit
                     ELSE ChildHit(node.left, r, tmin, tmax)
             tmax2 == IF left # NoHit THEN FMin(tmax, left.t) ELSE tmax
             right == IF node.right = NoChild THEN NoHit
                      ELSE ChildHit(node.right, r, tmin, tmax2)
         IN  IF right # NoHit THEN right ELSE left

BVHHit(tree, r, tmin, tmax) == ChildHit(tree, r, tmin, tmax)

----------------------------------------------------------------------------
(* Scenes and queries *)

Centers == {<<x, y, 0>> : x \in 0..MaxCenter, y \in 0..1}

RECURSIVE SceneLists(_)
SceneLists(n) ==
    IF n = 0 THEN {<<>>}
    ELSE {Append(l, Sphere(c, 1, n)) : l \in SceneLists(n - 1), c \in Centers}

Directions == {<<1, 0, 0>>, <<-1, 0, 0>>, <<0, 1, 0>>, <<0, -1, 0>>, <<0, 0, 1>>, <<0, 0, -1>>}
Origins == {<<x, y, z>> : x \in -2..(MaxCenter + 2), y \in -1..2, z \in {0, 2}}
\* Ray::new asserts a non-zero direction
Rays == {[origin |-> o, direction |-> d] : o \in Origins, d \in Directions}
TRanges == {<<0, Inf>>, <<0, 1>>, <<0, 2>>, <<2, Inf>>}

InitScene ==
    /\ objects \in UNION {SceneLists(n) : n \in 1..MaxObjects}
    /\ bvh = Unset
    /\ ray = Unset /\ tMin = 0 /\ tMax = 0
    /\ bvhHit = Unset /\ worldHit = Unset /\ worldCalls = <<>>
    /\ sPc = "built"
    /\ OthersIdle("scene")

\* World::hit(ray, t_min, t_max) on the collection
WorldHitQuery ==
    /\ sPc = "built"
    /\ \E r \in Rays, range \in TRanges :
         /\ ray' = r /\ tMin' = range[1] /\ tMax' = range[2]
         /\ worldHit' = WorldHit(objects, r, range[1], range[2])
         /\ worldCalls' = WorldCallTMax(objects, r, range[1], range[2])
    /\ sPc' = "queried"
    /\ UNCHANGED <<objects, bvh, bvhHit>>
    /\ UNCHANGED notSceneVars

NextWorld == WorldHitQuery

SpecWorld == InitScene /\ [][NextWorld]_vars

InitBVH ==
    /\ objects \in UNION {SceneLists(n) : n \in 1..MaxObjects}
    /\ bvh = Unset
    /\ ray = Unset /\ tMin = 0 /\ tMax = 0
    /\ bvhHit = Unset /\ worldHit = Unset /\ worldCalls = <<>>
    /\ sPc = "new"
    /\ OthersIdle("scene")

\* the time range the scenes are built for
TimeRange == <<0, 1>>

\* BVH::new(objects, time_range)
BVHBuild ==
    /\ sPc = "new"
    /\ bvh' \in BVHNew(objects, TimeRange[1], TimeRange[2])
    /\ sPc' = (IF bvh' = Panic THEN "panicked" ELSE "built")
    /\ UNCHANGED <<objects, ray, tMin, tMax, bvhHit, worldHit, worldCalls>>
    /\ UNCHANGED notSceneVars

\* the same query answered by the tree and by a World over the same objects
BVHHitQuery ==
    /\ sPc = "built"
    /\ \E r \in Rays, range \in TRanges :
         /\ ray' = r /\ tMin' = range[1] /\ tMax' = range[2]
         /\ bvhHit' = BVHHit(bvh, r, range[1], range[2])
         /\ worldHit' = WorldHit(objects, r, range[1], range[2])
         /\ worldCalls' = WorldCallTMax(objects, r, range[1], range[2])
    /\ sPc' = "queried"
    /\ UNCHANGED <<objects, bvh>>
    /\ UNCHANGED notSceneVars

NextBVH == BVHBuild \/ BVHHitQuery

\* a centre beyond every centre of Centers on the three axes
FarCenter == <<MaxCenter + 1, 2, 2>>

\* object lists of every length from 0: spheres, a sphere translated by an
\* offset with a NaN component, and objects without a bounding box
RECURSIVE ObjectLists(_)
ObjectLists(n) ==
    IF n = 0 THEN {<<>>}
    ELSE {Append(l, o) : l \in ObjectLists(n - 1),
                         o \in {Sphere(c, 1, n) : c \in Centers \cup {FarCenter}}
                               \cup {Translate(Sphere(<<0, 0, 0>>, 1, n), <<0, NaN, 0>>)}
                               \cup {Unbounded}}

InitBVHNew ==
    /\ objects \in UNION {ObjectLists(n) : n \in 0..MaxObjects}
    /\ bvh = Unset
    /\ ray = Unset /\ tMin = 0 /\ tMax = 0
    /\ bvhHit = Unset /\ worldHit = Unset /\ worldCalls = <<>>
    /\ sPc = "new"
    /\ OthersIdle("scene")

NextBVHNew == BVHBuild

SpecBVHNew == InitBVHNew /\ [][NextBVHNew]_vars

SpecBVH == InitBVH /\ [][NextBVH]_vars

----------------------------------------------------------------------------
(* One sphere of any radius (object/sphere.rs) *)

MaxRadius == 2      \* sphere radii of the sphere specification lie in 1..MaxRadius

\* k * x for a whole k and an f64 x that may be infinite
FScale(k, x) == IF x = Inf \/ x = NegInf \/ x = NaN THEN x ELSE k * x

\* the family of the radius-1 scenes, scaled by the radius
ScaledRay(k, q) == [origin |-> VecScale(k, q.origin), direction |-> q.direction]
SphereRanges(k) ==
    {<<FScale(k, x[1]), FScale(k, x[2])>> : x \in TRanges \cup {<<1, 3>>, <<NegInf, Inf>>}}

InitSphere ==
    /\ shape \in {Sphere(VecScale(k, c), k, 1) : k \in 1..MaxRadius, c \in Centers}
    /\ shRay = Unset /\ shTMin = 0 /\ shTMax = 0
    /\ shHit = Unset /\ shBox = Unset
    /\ shPc = "new"
    /\ OthersIdle("shape")

\* Sphere::hit(ray, t_min, t_max)
SphereHitQuery ==
    /\ shPc = "new"
    /\ \E q \in Rays, range \in SphereRanges(shape.radius) :
         /\ shRay' = ScaledRay(shape.radius, q)
         /\ shTMin' = range[1] /\ shTMax' = range[2]
         /\ shHit' = SphereHit(shape, ScaledRay(shape.radius, q), range[1], range[2])
    /\ shPc' = "queried"
    /\ UNCHANGED <<shape, shBox>>
    /\ UNCHANGED notShapeVars

NextSphere == SphereHitQuery

SpecSphere == InitSphere /\ [][NextSphere]_vars

----------------------------------------------------------------------------
(* Axis-aligned rectangles (object/rectangle.rs) *)

MaxRect == 2        \* rectangle and block corners lie on 0, 2, .., 2 * MaxRect

\* f64::EPSILON, the padding of a rectangle's box.  The corners of the
\* rectangle family lie on the even numbers, so that the padding, which is
\* smaller than every difference of two coordinates, is one unit.
Padding == 1

IsFinite(x) == x # NaN /\ x # Inf /\ x # NegInf

\* t * d for a direction component d in {-1, 0, 1}, and a + x for a finite a
FMul(t, d) ==
    IF t = NaN THEN NaN
    ELSE IF t = Inf \/ t = NegInf THEN (IF d = 0 THEN NaN ELSE IF d > 0 THEN t ELSE 0 - t)
    ELSE t * d
FAdd(a, x) == IF IsFinite(x) THEN a + x ELSE x

\* Ray::at for a parameter that may be infinite or NaN
FRayAt(r, t) == [i \in Axes |-> FAdd(r.origin[i], FMul(t, r.direction[i]))]

\* Point3::is_valid_point, asserted by OutwardHitRecord::new
IsValidPoint(p) == \A i \in Axes : IsFinite(p[i])

UnitVec(axis) == [i \in Axes |-> IF i = axis THEN 1 ELSE 0]

\* the three instances of axis_aligned_rectangle!: ($x, $y, $z) as axis numbers
XY == <<1, 2, 3>>
XZ == <<1, 3, 2>>
YZ == <<2, 3, 1>>
Planes == {XY, XZ, YZ}

\* $sf::new((x0, y0), (x1, y1), z, material)
RectangleNew(plane, p0, p1, z, mat) ==
    IF p0[1] < p1[1] /\ p0[2] < p1[2]
    THEN [kind |-> "rect", plane |-> plane, x0 |-> p0[1], x1 |-> p1[1],
          y0 |-> p0[2], y1 |-> p1[2], z |-> z, material |-> mat]
    ELSE Panic

\* Hit::hit of a rectangle
RectangleHit(rc, r, tmin, tmax) ==
    LET ax == rc.plane[1]
        ay == rc.plane[2]
        az == rc.plane[3]
        t == FDiv(rc.z - r.origin[az], r.direction[az])
        point == FRayAt(r, t)
        x == point[ax]
        y == point[ay]
        outward == UnitVec(az)
    IN  IF FLt(t, tmin) \/ FLt(tmax, t) THEN NoHit
        ELSE IF FLt(x, rc.x0) \/ FLt(rc.x1, x) THEN NoHit
        ELSE IF FLt(y, rc.y0) \/ FLt(rc.y1, y) THEN NoHit
        ELSE IF ~IsValidPoint(point) THEN Panic
        ELSE [hit |-> TRUE, t |-> t, point |-> point,
              normal |-> IF Dot(r.direction, outward) < 1 THEN outward
                         ELSE VecScale(-1, outward),
              material |-> rc.material]

\* Hit::bounding_box of a rectangle:
\* AABB::new(Vec3::new($x0, $x1, $z - padding), Vec3::new($y0, $y1, $z + padding))
RectangleBoundingBox(rc) ==
    AABBNew(<<rc.x0, rc.x1, rc.z - Padding>>, <<rc.y0, rc.y1, rc.z + Padding>>)

RectCoords == {2 * k : k \in 0..MaxRect}
Rectangles ==
    {RectangleNew(plane, <<a0, b0>>, <<a1, b1>>, z, 1) :
        plane \in Planes, a0 \in RectCoords, a1 \in RectCoords,
        b0 \in RectCoords, b1 \in RectCoords, z \in {0, 2}} \ {Panic}

RectOrigins == {<<x, y, z>> : x \in {-2, 0, 1, 2}, y \in {-2, 0, 1, 2}, z \in {-2, 0, 1, 2}}
RectRays == {[origin |-> o, direction |-> d] : o \in RectOrigins, d \in Directions}
RectRanges == {<<0, Inf>>, <<0, 2>>, <<NegInf, Inf>>}

InitRectangle ==
    /\ shape \in Rectangles
    /\ shRay = Unset /\ shTMin = 0 /\ shTMax = 0
    /\ shHit = Unset /\ shBox = Unset
    /\ shPc = "new"
    /\ OthersIdle("shape")

\* bounding_box(time_from, time_to) of the rectangle
RectangleBoundingBoxQuery ==
    /\ shPc = "new"
    /\ shBox' = RectangleBoundingBox(shape)
    /\ shPc' = "boxed"
    /\ UNCHANGED <<shape, shRay, shTMin, shTMax, shHit>>
    /\ UNCHANGED notShapeVars

\* hit(ray, t_min, t_max) of the rectangle
RectangleHitQuery ==
    /\ shPc = "boxed"
    /\ \E r \in RectRays, range \in RectRanges :
         /\ shRay' = r /\ shTMin' = range[1] /\ shTMax' = range[2]
         /\ shHit' = RectangleHit(shape, r, range[1], range[2])
    /\ shPc' = "queried"
    /\ UNCHANGED <<shape, shBox>>
    /\ UNCHANGED notShapeVars

NextRectangle == RectangleBoundingBoxQuery \/ RectangleHitQuery

SpecRectangle == InitRectangle /\ [][NextRectangle]_vars

----------------------------------------------------------------------------
(* Blocks (object/block.rs) *)

\* rectangle!(($min, $max).($axis1, $axis2), $side.$plane, material): the
\* rectangle of the plane with axes (axis1, axis2, third) that spans min..max
\* on its two axes, at the fixed coordinate z
BlockRectangle(plane, minp, maxp, z, mat) ==
    RectangleNew(plane, <<minp[plane[1]], minp[plane[2]]>>,
                 <<maxp[plane[1]], maxp[plane[2]]>>, z, mat)

\* rectangles!(($min, $max).(x, y, z), material): the sixth rectangle is
\* rectangle!((min, max).(y, z), max.y, material)
BlockRectangles(minp, maxp, mat) ==
    <<BlockRectangle(XY, minp, maxp, minp[3], mat),
      BlockRectangle(XY, minp, maxp, maxp[3], mat),
      BlockRectangle(XZ, minp, maxp, minp[2], mat),
      BlockRectangle(XZ, minp, maxp, maxp[2], mat),
      BlockRectangle(YZ, minp, maxp, minp[1], mat),
      BlockRectangle(YZ, minp, maxp, maxp[2], mat)>>

\* Block::new asserts a positive volume
BlockNew(minp, maxp, mat) ==
    IF \A i \in Axes : minp[i] < maxp[i]
    THEN [kind |-> "block", rectangles |-> BlockRectangles(minp, maxp, mat),
          min_point |-> minp, max_point |-> maxp]
    ELSE Panic

\* the answers of the six faces to one query, in array order
FaceHits(b, r, tmin, tmax) ==
    [i \in 1..6 |-> RectangleHit(b.rectangles[i], r, tmin, tmax)]

\* Block::hit is self.rectangles.hit(ray, t_min, t_max): the nearest of the
\* hits of the six faces; a face that panics ends the call
BlockHit(b, r, tmin, tmax) ==
    LET answers == FaceHits(b, r, tmin, tmax)
        hits == SelectSeq(answers, LAMBDA h : h # NoHit)
    IN  IF \E i \in 1..6 : answers[i] = Panic THEN Panic
        ELSE IF hits = <<>> THEN NoHit
        ELSE MinByT(Head(hits), Tail(hits))

\* Block::bounding_box
BlockBoundingBox(b) == AABBNew(b.min_point, b.max_point)

RectPoints == {<<x, y, z>> : x \in RectCoords, y \in RectCoords, z \in RectCoords}
Blocks == {BlockNew(minp, maxp, 1) : minp \in RectPoints, maxp \in RectPoints} \ {Panic}

InitBlock ==
    /\ shape \in Blocks
    /\ shRay = Unset /\ shTMin = 0 /\ shTMax = 0
    /\ shHit = Unset /\ shBox = Unset
    /\ shPc = "new"
    /\ OthersIdle("shape")

\* bounding_box(time_from, time_to) of the block
BlockBoundingBoxQuery ==
    /\ shPc = "new"
    /\ shBox' = BlockBoundingBox(shape)
    /\ shPc' = "boxed"
    /\ UNCHANGED <<shape, shRay, shTMin, shTMax, shHit>>
    /\ UNCHANGED notShapeVars

\* hit(ray, t_min, t_max) of the block
BlockHitQuery ==
    /\ shPc = "boxed"
    /\ \E r \in RectRays, range \in RectRanges :
         /\ shRay' = r /\ shTMin' = range[1] /\ shTMax' = range[2]
         /\ shHit' = BlockHit(shape, r, range[1], range[2])
    /\ shPc' = "queried"
    /\ UNCHANGED <<shape, shBox>>
    /\ UNCHANGED notShapeVars

NextBlock == BlockBoundingBoxQuery \/ BlockHitQuery

SpecBlock == InitBlock /\ [][NextBlock]_vars

----------------------------------------------------------------------------
(* Rotate::bounding_box and its cache (hit/rotation.rs) *)

MaxCalls == 4       \* longest sequence of bounding_box calls on one Rotate

\* AABB::corner: bit k of the index picks min or max on axis k
Corner(box, index) ==
    [i \in Axes |-> IF (index \div (2 ^ (i - 1))) % 2 = 0 THEN box.min[i] ELSE box.max[i]]

\* AABB::include
Include(box, point) == AABBNew(VecMin(box.min, point), VecMax(box.max, point))

\* Rotate::new_x, new_y, new_z: the axis array, counted from 1
RotateAxes == {<<1, 2, 3>>, <<2, 1, 3>>, <<3, 1, 2>>}

\* Rotate::new for the quarter turns, whose sine and cosine are whole
\* numbers (the rounding of sin and cos near zero is not modelled)
QuarterTurns == {<<0, 1>>, <<1, 0>>, <<0, -1>>, <<-1, 0>>}
RotateNew(object, sincos, axis) ==
    [object |-> object, sin |-> sincos[1], cos |-> sincos[2], axis |-> axis]

\* Rotate::rotate
RotatePoint(rt, point) ==
    [i \in Axes |->
        IF i = rt.axis[1] THEN point[rt.axis[1]]
        ELSE IF i = rt.axis[2]
             THEN rt.cos * point[rt.axis[2]] - rt.sin * point[rt.axis[3]]
             ELSE rt.sin * point[rt.axis[2]] + rt.cos * point[rt.axis[3]]]

\* corners index..7 of the fold that includes every rotated corner
RECURSIVE FoldCorners(_, _, _, _)
FoldCorners(rt, aabb, acc, index) ==
    IF index > 7 THEN acc
    ELSE \* the box of this turn is a value before the next turn starts
         CHOOSE result \in {FoldCorners(rt, aabb, next, index + 1) :
                               next \in {Include(acc, RotatePoint(rt, Corner(aabb, index)))}} : TRUE

\* rotation.rs:110-114  the box the cache is filled with
ComputeRotatedBox(rt, tf, tt) ==
    LET child == BoundingBox(rt.object, tf, tt)
    IN  IF child = Panic THEN Panic
        ELSE IF child = NoBox THEN NoBox
        ELSE FoldCorners(rt, child, EMPTY, 0)

\* a variant of the cache test that compares the start of the range only
CacheIsValidByStart(timeRange, tf, tt) ==
    timeRange # <<>> /\ timeRange[1] = tf /\ tf # NaN

\* rotation.rs:101-102  the cached range is Some and equals the arguments
\* (f64 ==: a NaN equals nothing)
CacheIsValid(timeRange, tf, tt) ==
    /\ timeRange # <<>>
    /\ timeRange[1] = tf /\ tf # NaN
    /\ timeRange[2] = tt /\ tt # NaN

RotateChildren ==
    {Sphere(<<1, 0, 0>>, 1, 1), MovingSphere(<<1, 0, 0>>, <<2, 0, 0>>, 1, 1), Unbounded}
TimePairs == {<<0, 0>>, <<0, 1>>, <<NaN, NaN>>}

InitRotate ==
    /\ rotate \in {RotateNew(o, sc, axis) :
                      o \in RotateChildren, sc \in QuarterTurns, axis \in RotateAxes}
    /\ rotTimeRange = <<>>
    /\ rotBoundingBox = NoBox
    /\ rotLog = <<>>
    /\ rotPc = "ready"
    /\ OthersIdle("rotate")

\* Rotate::bounding_box(time_from, time_to), served from the cache
RotateBoundingBoxCached ==
    /\ rotPc = "ready" /\ Len(rotLog) < MaxCalls
    /\ \E pair \in TimePairs :
         /\ CacheIsValid(rotTimeRange, pair[1], pair[2])
         /\ rotLog' = Append(rotLog, [pair |-> pair, computed |-> FALSE,
                                      ret |-> rotBoundingBox])
    /\ UNCHANGED <<rotate, rotTimeRange, rotBoundingBox, rotPc>>
    /\ UNCHANGED notRotVars

\* Rotate::bounding_box(time_from, time_to), computing the box again; the
\* range is stored before the child is asked, the box after
RotateBoundingBoxComputed ==
    /\ rotPc = "ready" /\ Len(rotLog) < MaxCalls
    /\ \E pair \in TimePairs :
         LET computed == ComputeRotatedBox(rotate, pair[1], pair[2]) IN
         /\ ~CacheIsValid(rotTimeRange, pair[1], pair[2])
         /\ rotTimeRange' = pair
         /\ rotBoundingBox' = IF computed = Panic THEN rotBoundingBox ELSE computed
         /\ rotPc' = IF computed = Panic THEN "panicked" ELSE "ready"
         /\ rotLog' = Append(rotLog, [pair |-> pair, computed |-> TRUE, ret |-> computed])
    /\ UNCHANGED rotate
    /\ UNCHANGED notRotVars

NextRotate == RotateBoundingBoxCached \/ RotateBoundingBoxComputed

SpecRotate == InitRotate /\ [][NextRotate]_vars

----------------------------------------------------------------------------
(* Rotate::bounding_box called from several threads (hit/rotation.rs) *)

MaxThreads == 2     \* threads calling bounding_box on the same Rotate
MaxNest == 2        \* Rotate objects nested in one another
MaxLockCalls == 3   \* calls started, over all the threads

Threads == 1..MaxThreads

\* Option::map of the fold over the rotated corners (rotation.rs:110-114)
MapRotatedBox(rt, child) ==
    IF child = NoBox THEN NoBox ELSE FoldCorners(rt, child, EMPTY, 0)

\* the box a call made alone on the Rotate of a level returns
RECURSIVE RotatedBoxOfLevel(_, _, _, _)
RotatedBoxOfLevel(rt, depth, level, pair) ==
    MapRotatedBox(rt, IF level = depth THEN BoundingBox(rt.object, pair[1], pair[2])
                      ELSE RotatedBoxOfLevel(rt, depth, level + 1, pair))

\* a variant in which the read guard of time_range outlives the if let
ReadersGuardKept(readers, t) == readers

\* rotation.rs:101-105  the read guard of time_range is a temporary of the
\* if let statement: it is dropped where the statement ends
ReadersAfterIfLet(readers, t) == readers \ {t}

IdleThread == [pc |-> "idle", level |-> 0, pair |-> <<>>, val |-> NoBox,
               returned |-> FALSE, ret |-> NoBox]

InitLock ==
    /\ lkRotate = RotateNew(MovingSphere(<<1, 0, 0>>, <<2, 0, 0>>, 1, 1), <<1, 0>>, <<3, 1, 2>>)
    /\ lkDepth \in 1..MaxNest
    /\ lkTimeRange = [l \in 1..lkDepth |-> <<>>]
    /\ lkBoundingBox = [l \in 1..lkDepth |-> NoBox]
    /\ lkReaders = [l \in 1..lkDepth |-> {}]
    /\ lkThreads = [t \in Threads |-> IdleThread]
    /\ lkCalls = 0
    /\ OthersIdle("lock")

\* a thread calls bounding_box(time_from, time_to) on the outermost Rotate
LockCall(t) ==
    /\ lkThreads[t].pc = "idle" /\ lkCalls < MaxLockCalls
    /\ \E pair \in {<<0, 0>>, <<0, 1>>} :
         lkThreads' = [lkThreads EXCEPT ![t] =
                          [pc |-> "check", level |-> 1, pair |-> pair, val |-> NoBox,
                           returned |-> FALSE, ret |-> NoBox]]
    /\ lkCalls' = lkCalls + 1
    /\ UNCHANGED <<lkRotate, lkDepth, lkTimeRange, lkBoundingBox, lkReaders>>
    /\ UNCHANGED notLockVars

\* where a call of a level hands its value: to the caller of the outermost
\* call, or to the Rotate above, which maps it (rotation.rs:110)
ReturnFrom(th, value) ==
    IF th.level = 1
    THEN [th EXCEPT !.pc = "idle", !.level = 0, !.val = NoBox,
                    !.returned = TRUE, !.ret = value]
    ELSE [th EXCEPT !.pc = "store_box", !.level = th.level - 1, !.val = value]

\* rotation.rs:101-102  time_range.read() is taken and the range compared:
\* on a match the guard stays for the body of the if let, otherwise it is
\* dropped with the statement
LockCheck(t) ==
    LET th == lkThreads[t] IN
    /\ th.pc = "check"
    /\ IF CacheIsValid(lkTimeRange[th.level], th.pair[1], th.pair[2])
       THEN /\ lkReaders' = [lkReaders EXCEPT ![th.level] = @ \cup {t}]
            /\ lkThreads' = [lkThreads EXCEPT ![t].pc = "cached"]
       ELSE /\ lkReaders' = [lkReaders EXCEPT ![th.level] =
                                ReadersAfterIfLet(@ \cup {t}, t)]
            /\ lkThreads' = [lkThreads EXCEPT ![t].pc = "store_range"]
    /\ UNCHANGED <<lkRotate, lkDepth, lkTimeRange, lkBoundingBox, lkCalls>>
    /\ UNCHANGED notLockVars

\* rotation.rs:103  return bounding_box.read().clone(), then the guard of
\* time_range is dropped
LockReturnCached(t) ==
    LET th == lkThreads[t] IN
    /\ th.pc = "cached"
    /\ lkReaders' = [lkReaders EXCEPT ![th.level] = @ \ {t}]
    /\ lkThreads' = [lkThreads EXCEPT ![t] = ReturnFrom(th, lkBoundingBox[th.level])]
    /\ UNCHANGED <<lkRotate, lkDepth, lkTimeRange, lkBoundingBox, lkCalls>>
    /\ UNCHANGED notLockVars

\* rotation.rs:108  *time_range.write() = Some((time_from, time_to)): the
\* write guard waits until no read guard is left
LockStoreRange(t) ==
    LET th == lkThreads[t] IN
    /\ th.pc = "store_range"
    /\ lkReaders[th.level] = {}
    /\ lkTimeRange' = [lkTimeRange EXCEPT ![th.level] = th.pair]
    /\ lkThreads' = [lkThreads EXCEPT ![t].pc = "child"]
    /\ UNCHANGED <<lkRotate, lkDepth, lkBoundingBox, lkReaders, lkCalls>>
    /\ UNCHANGED notLockVars

\* rotation.rs:110  self.object.bounding_box(time_from, time_to), evaluated
\* before the write guard of bounding_box is taken: the child is another
\* Rotate, entered with no guard held, or the object at the bottom
LockChild(t) ==
    LET th == lkThreads[t] IN
    /\ th.pc = "child"
    /\ lkThreads' = [lkThreads EXCEPT ![t] =
          IF th.level < lkDepth
          THEN [th EXCEPT !.pc = "check", !.level = th.level + 1]
          ELSE [th EXCEPT !.pc = "store_box",
                          !.val = BoundingBox(lkRotate.object, th.pair[1], th.pair[2])]]
    /\ UNCHANGED <<lkRotate, lkDepth, lkTimeRange, lkBoundingBox, lkReaders, lkCalls>>
    /\ UNCHANGED notLockVars

\* rotation.rs:109-114  *bounding_box.write() = the rotated box of the child
LockStoreBox(t) ==
    LET th == lkThreads[t] IN
    /\ th.pc = "store_box"
    /\ lkBoundingBox' = [lkBoundingBox EXCEPT ![th.level] = MapRotatedBox(lkRotate, th.val)]
    /\ lkThreads' = [lkThreads EXCEPT ![t].pc = "read_box"]
    /\ UNCHANGED <<lkRotate, lkDepth, lkTimeRange, lkReaders, lkCalls>>
    /\ UNCHANGED notLockVars

\* rotation.rs:116  bounding_box.read().clone()
LockReturnRead(t) ==
    LET th == lkThreads[t] IN
    /\ th.pc = "read_box"
    /\ lkThreads' = [lkThreads EXCEPT ![t] = ReturnFrom(th, lkBoundingBox[th.level])]
    /\ UNCHANGED <<lkRotate, lkDepth, lkTimeRange, lkBoundingBox, lkReaders, lkCalls>>
    /\ UNCHANGED notLockVars

LockStep(t) ==
    \/ LockCheck(t)
    \/ LockReturnCached(t)
    \/ LockStoreRange(t)
    \/ LockChild(t)
    \/ LockStoreBox(t)
    \/ LockReturnRead(t)

NextLock == \E t \in Threads : LockCall(t) \/ LockStep(t)

\* the scheduler runs some thread that can take a step: no other fairness
\* is needed, since a thread takes a bounded number of steps
SpecLock == InitLock /\ [][NextLock]_vars /\ WF_lockVars(\E t \in Threads : LockStep(t))

----------------------------------------------------------------------------
(* Rotate::hit (hit/rotation.rs) *)

\* Rotate::rotate_inv
RotateInv(rt, point) ==
    [i \in Axes |->
        IF i = rt.axis[1] THEN point[rt.axis[1]]
        ELSE IF i = rt.axis[2]
             THEN rt.cos * point[rt.axis[2]] + rt.sin * point[rt.axis[3]]
             ELSE (0 - rt.sin) * point[rt.axis[2]] + rt.cos * point[rt.axis[3]]]

\* a variant without the assertion
RayNewUnchecked(origin, direction) == [origin |-> origin, direction |-> direction]

\* Ray::new asserts a direction of non-zero length
RayNew(origin, direction) ==
    IF Dot(direction, direction) = 0 THEN Panic
    ELSE [origin |-> origin, direction |-> direction]

\* Rotate::hit over a sphere: the ray is taken through rotate, the child is
\* asked, and the point and the normal of its hit go through rotate_inv
RotateHit(rt, r, tmin, tmax) ==
    LET rotated == RayNew(RotatePoint(rt, r.origin), RotatePoint(rt, r.direction))
    IN  IF rotated = Panic THEN Panic
        ELSE LET hit == SphereHit(rt.object, rotated, tmin, tmax)
             IN  IF hit = NoHit THEN NoHit
                 ELSE [hit EXCEPT !.point = RotateInv(rt, hit.point),
                                  !.normal = RotateInv(rt, hit.normal)]

InitRotateHit ==
    /\ shape \in {RotateNew(Sphere(c, 1, 1), sc, axis) :
                     c \in Centers, sc \in QuarterTurns, axis \in RotateAxes}
    /\ shRay = Unset /\ shTMin = 0 /\ shTMax = 0
    /\ shHit = Unset /\ shBox = Unset
    /\ shPc = "new"
    /\ OthersIdle("shape")

\* the first bounding_box(time_from, time_to) of the Rotate: nothing is cached
RotateBoundingBoxQuery ==
    /\ shPc = "new"
    /\ shBox' = ComputeRotatedBox(shape, TimeRange[1], TimeRange[2])
    /\ shPc' = "boxed"
    /\ UNCHANGED <<shape, shRay, shTMin, shTMax, shHit>>
    /\ UNCHANGED notShapeVars

\* hit(ray, t_min, t_max) of the Rotate
RotateHitQuery ==
    /\ shPc = "boxed"
    /\ \E r \in Rays, range \in TRanges :
         /\ shRay' = r /\ shTMin' = range[1] /\ shTMax' = range[2]
         /\ shHit' = RotateHit(shape, r, range[1], range[2])
    /\ shPc' = "queried"
    /\ UNCHANGED <<shape, shBox>>
    /\ UNCHANGED notShapeVars

NextRotateHit == RotateBoundingBoxQuery \/ RotateHitQuery

SpecRotateHit == InitRotateHit /\ [][NextRotateHit]_vars

----------------------------------------------------------------------------
(* Color::format_color (vec3/color.rs) *)

\* A colour component x handed to format_color is held as the whole number
\* 64 * x: the components of the family are the squares (k / 8)^2, on which
\* the square root, the product with 255 and the rounding are exact in f64,
\* together with negative, large and non-finite values.  The square root
\* and everything after it is held in thousandths.
ColorScale == 64

\* the largest whole q with q * q <= n
ISqrt(n) == CHOOSE q \in 0..n : q * q <= n /\ n < (q + 1) * (q + 1)

\* f64::sqrt, from 64ths to thousandths: NaN for a negative operand.  Above
\* 1.0 the result is rounded down, which the clamp that follows absorbs.
FSqrt(n) ==
    IF n = NaN \/ n < 0 THEN NaN
    ELSE IF n = Inf THEN Inf
    ELSE 125 * ISqrt(n)

\* a variant of clamp without the upper bound
ClampBelowOnly(x, lo, hi) == IF FLt(x, lo) THEN lo ELSE x

\* num::clamp: a NaN is neither below min nor above max and passes through
Clamp(x, lo, hi) == IF FLt(x, lo) THEN lo ELSE IF FLt(hi, x) THEN hi ELSE x

\* (COLOR_MAX * x).round() for x in thousandths: f64::round rounds half away
\* from zero
RoundScaled(x) ==
    IF ~IsFinite(x) THEN x
    ELSE IF x >= 0 THEN (255 * x + 500) \div 1000
    ELSE 0 - ((255 * (0 - x) + 500) \div 1000)

\* `as u64`: saturating, NaN becomes 0 (Inf stands for u64::MAX)
AsU64(x) == IF x = NaN \/ x < 0 THEN 0 ELSE x

\* Color::format_color: the integers of the string "R G B"
FormatColor(c) == [i \in Axes |-> AsU64(RoundScaled(Clamp(FSqrt(c[i]), 0, 999)))]

\* -0.5, 0, 1/64, 1/4, 9/16, 49/64, 1, 1.5, 4 and the non-finite values
Channels == {NaN, NegInf, -32, 0, 1, 16, 36, 49, 64, 96, 256, Inf}

InitFormat ==
    /\ fcColor \in {<<r, g, b>> : r \in Channels, g \in Channels, b \in Channels}
    /\ fcOut = NoColor
    /\ fcPc = "call"
    /\ OthersIdle("format")

\* color.format_color()
FormatColorCall ==
    /\ fcPc = "call"
    /\ fcOut' = FormatColor(fcColor)
    /\ fcPc' = "done"
    /\ UNCHANGED fcColor
    /\ UNCHANGED notFmtVars

NextFormat == FormatColorCall

SpecFormat == InitFormat /\ [][NextFormat]_vars

----------------------------------------------------------------------------
(* RayTracer::trace_in (lib.rs) *)

MaxImage == 2       \* largest image_height

COLOR_MAX == 255

\* lib.rs:102  (aspect_ratio * image_height as f64) as u64, for a ratio num/den
ImageWidth(aspect, height) == (aspect[1] * height) \div aspect[2]

\* the colour the camera and the scene show at a column and a row counted
\* from the bottom of the image (Camera::cast takes v = 0 at the bottom):
\* different places show different colours, in 64ths
ImageColor(column, row) == <<column * column, row * row, 0>>

\* a variant of the row flip that keeps the row index as it is
TraceSingleRowUnflipped(j, height) == j

\* lib.rs:50  (i, j) = (i as f64, height - j as f64 - 1.0)
TraceSingleRow(j, height) == height - j - 1

\* trace_single(i, j, image_width, image_height, ..) of the closure
TraceSingleColor(i, j, width, height) == ImageColor(i, TraceSingleRow(j, height))

\* (0..image_height).flat_map(|j| (0..image_width).map(|i| ..)): the k-th
\* item, counted from 0, is the pixel i = k mod width of row j = k div width
FlatMapI(k, width) == k % width
FlatMapJ(k, width) == k \div width

\* the lines of the header and of a pixel
HeaderLines(width, height) ==
    <<[line |-> "P3"], [line |-> "size", width |-> width, height |-> height],
      [line |-> "max", value |-> COLOR_MAX]>>
PixelLine(color) == [line |-> "pixel", rgb |-> FormatColor(color)]

Aspects == {<<1, 1>>, <<3, 2>>, <<1, 2>>}
Pixels == 0..(tiWidth * tiHeight - 1)

InitTrace ==
    /\ tiHeight \in 0..MaxImage
    /\ \E aspect \in Aspects : tiWidth = ImageWidth(aspect, tiHeight)
    /\ tiPanics \in {{}} \cup {{k} : k \in 0..(tiWidth * tiHeight - 1)}
    /\ tiBuffer = <<>>
    /\ tiColors = [k \in 1..(tiWidth * tiHeight) |-> NoColor]
    /\ tiTraced = [k \in 1..(tiWidth * tiHeight) |-> 0]
    /\ tiOutOfOrder = FALSE
    /\ tiPc = "start"
    /\ OthersIdle("trace")

\* lib.rs:104-106  the three writeln! of the header succeed
TraceInWriteHeader ==
    /\ tiPc = "start"
    /\ tiBuffer' = HeaderLines(tiWidth, tiHeight)
    /\ tiPc' = "tracing"
    /\ UNCHANGED <<tiWidth, tiHeight, tiPanics, tiColors, tiTraced, tiOutOfOrder>>
    /\ UNCHANGED notTraceVars

\* one of the three writeln! of the header fails: `?` returns the error
TraceInHeaderFails ==
    /\ tiPc = "start"
    /\ \E k \in 0..2 : tiBuffer' = SubSeq(HeaderLines(tiWidth, tiHeight), 1, k)
    /\ tiPc' = "failed"
    /\ UNCHANGED <<tiWidth, tiHeight, tiPanics, tiColors, tiTraced, tiOutOfOrder>>
    /\ UNCHANGED notTraceVars

\* a worker of the pool runs the closure for one pixel that still has to be
\* traced, whatever the state of the other pixels
TraceSinglePixel ==
    /\ tiPc = "tracing"
    /\ \E k \in Pixels :
         /\ tiColors[k + 1] = NoColor /\ k \notin tiPanics
         /\ tiColors' = [tiColors EXCEPT ![k + 1] =
                TraceSingleColor(FlatMapI(k, tiWidth), FlatMapJ(k, tiWidth), tiWidth, tiHeight)]
         /\ tiTraced' = [tiTraced EXCEPT ![k + 1] = @ + 1]
         /\ tiOutOfOrder' = (tiOutOfOrder \/ \E e \in Pixels : e < k /\ tiColors[e + 1] = NoColor)
    /\ UNCHANGED <<tiWidth, tiHeight, tiPanics, tiBuffer, tiPc>>
    /\ UNCHANGED notTraceVars

\* the closure panics for a pixel: the pool hands the panic to trace_in,
\* which unwinds out of collect
TraceSinglePanics ==
    /\ tiPc = "tracing"
    /\ \E k \in Pixels :
         /\ tiColors[k + 1] = NoColor /\ k \in tiPanics
         /\ tiTraced' = [tiTraced EXCEPT ![k + 1] = @ + 1]
    /\ tiPc' = "panicked"
    /\ UNCHANGED <<tiWidth, tiHeight, tiPanics, tiBuffer, tiColors, tiOutOfOrder>>
    /\ UNCHANGED notTraceVars

\* lib.rs:117  collect::<Vec<_>>() returns once every pixel has its colour;
\* the vector holds the colours in the order of the iterator
TraceInCollect ==
    /\ tiPc = "tracing"
    /\ \A k \in Pixels : tiColors[k + 1] # NoColor
    /\ tiPc' = "writing"
    /\ UNCHANGED <<tiWidth, tiHeight, tiPanics, tiBuffer, tiColors, tiTraced, tiOutOfOrder>>
    /\ UNCHANGED notTraceVars

\* lib.rs:119-121  the next colour of the vector is formatted and written
TraceInWritePixel ==
    /\ tiPc = "writing"
    /\ Len(tiBuffer) - 3 < tiWidth * tiHeight
    /\ tiBuffer' = Append(tiBuffer, PixelLine(tiColors[Len(tiBuffer) - 3 + 1]))
    /\ UNCHANGED <<tiWidth, tiHeight, tiPanics, tiColors, tiTraced, tiOutOfOrder, tiPc>>
    /\ UNCHANGED notTraceVars

\* the writeln! of a pixel fails: `?` returns the error
TraceInWriteFails ==
    /\ tiPc = "writing"
    /\ Len(tiBuffer) - 3 < tiWidth * tiHeight
    /\ tiPc' = "failed"
    /\ UNCHANGED <<tiWidth, tiHeight, tiPanics, tiBuffer, tiColors, tiTraced, tiOutOfOrder>>
    /\ UNCHANGED notTraceVars

\* lib.rs:123  Ok(())
TraceInReturn ==
    /\ tiPc = "writing"
    /\ Len(tiBuffer) - 3 = tiWidth * tiHeight
    /\ tiPc' = "done"
    /\ UNCHANGED <<tiWidth, tiHeight, tiPanics, tiBuffer, tiColors, tiTraced, tiOutOfOrder>>
    /\ UNCHANGED notTraceVars

NextTrace ==
    \/ TraceInWriteHeader
    \/ TraceInHeaderFails
    \/ TraceSinglePixel
    \/ TraceSinglePanics
    \/ TraceInCollect
    \/ TraceInWritePixel
    \/ TraceInWriteFails
    \/ TraceInReturn

SpecTrace == InitTrace /\ [][NextTrace]_vars

----------------------------------------------------------------------------
(* RayTracer::trace_single (lib.rs) *)

MaxSamples == 3     \* largest samples_per_pixel

RECURSIVE Factorial(_)
Factorial(n) == IF n <= 1 THEN 1 ELSE n * Factorial(n - 1)

\* the unit of the colours of this part: every sum of colours divides
\* exactly by every sample count up to MaxSamples
SampleUnit == Factorial(MaxSamples)

\* the values rng.gen::<f64>() gives, a number of [0, 1), in halves
Jitters == {0, 1}

\* lib.rs:56, 73-74  u = (i + offset) / (width - 1.0): the position is kept
\* as the fraction num / den, both counted in halves
SamplePosition(index, offset, size) == [num |-> 2 * index + offset, den |-> 2 * (size - 1)]

\* what camera.cast(u, v) and ray_color give for a position: a colour that
\* tells the positions apart
SampleColor(u, v) == <<SampleUnit * (u.num + 1), SampleUnit * (v.num + 1), 0>>

\* Color / f64 with the sample count as divisor: x / 0 is infinite or NaN
ColorDiv(c, n) ==
    [a \in Axes |-> IF n = 0 THEN FDiv(c[a], 0) ELSE c[a] \div n]

\* a variant of the loop whose range includes its end
LoopContinuesInclusive(run, n) == run <= n

\* lib.rs:69  for run in 1..self.samples_per_pixel: the range excludes its end
LoopContinues(run, n) == run < n

InitSample ==
    /\ tsN \in 0..MaxSamples
    /\ tsWidth \in {2, 3} /\ tsHeight \in {2, 3}
    /\ tsI \in 0..(tsWidth - 1) /\ tsJ \in 0..(tsHeight - 1)
    /\ tsRun = 0 /\ tsSum = <<0, 0, 0>> /\ tsLog = <<>> /\ tsOut = NoColor
    /\ tsPc = "start"
    /\ OthersIdle("sample")

\* lib.rs:54-67  the first sample goes through the pixel's own coordinates
TraceSingleFirst ==
    /\ tsPc = "start"
    /\ LET u == SamplePosition(tsI, 0, tsWidth)
           v == SamplePosition(TraceSingleRow(tsJ, tsHeight), 0, tsHeight)
       IN  /\ tsSum' = VecAdd(tsSum, SampleColor(u, v))
           /\ tsLog' = Append(tsLog, [u |-> u, v |-> v, gen |-> 0])
    /\ tsRun' = 1
    /\ tsPc' = "loop"
    /\ UNCHANGED <<tsN, tsI, tsJ, tsWidth, tsHeight, tsOut>>
    /\ UNCHANGED notSampleVars

\* lib.rs:69-86  one turn of the loop: two values of the generator are
\* added to the pixel's coordinates
TraceSingleJittered ==
    /\ tsPc = "loop"
    /\ LoopContinues(tsRun, tsN)
    /\ \E du \in Jitters, dv \in Jitters :
         LET u == SamplePosition(tsI, du, tsWidth)
             v == SamplePosition(TraceSingleRow(tsJ, tsHeight), dv, tsHeight)
         IN  /\ tsSum' = VecAdd(tsSum, SampleColor(u, v))
             /\ tsLog' = Append(tsLog, [u |-> u, v |-> v, gen |-> 2])
    /\ tsRun' = tsRun + 1
    /\ UNCHANGED <<tsN, tsI, tsJ, tsWidth, tsHeight, tsOut, tsPc>>
    /\ UNCHANGED notSampleVars

\* lib.rs:92  pixel_color_sum / (self.samples_per_pixel as f64)
TraceSingleReturn ==
    /\ tsPc = "loop"
    /\ ~LoopContinues(tsRun, tsN)
    /\ tsOut' = ColorDiv(tsSum, tsN)
    /\ tsPc' = "done"
    /\ UNCHANGED <<tsN, tsI, tsJ, tsWidth, tsHeight, tsRun, tsSum, tsLog>>
    /\ UNCHANGED notSampleVars

NextSample == TraceSingleFirst \/ TraceSingleJittered \/ TraceSingleReturn

SpecSample == InitSample /\ [][NextSample]_vars

----------------------------------------------------------------------------
(* ConstantMedium (hit/constant.rs) *)

\* ConstantMedium::new: negative_reciprocal_density = -1.0 / density, for
\* the densities 1 and -1
ConstantMediumNew(boundary, density) ==
    [kind |-> "medium", boundary |-> boundary, negative_reciprocal_density |-> 0 - density]

\* constant.rs:71  t_min + 1e-5: the times of these scenes are whole numbers,
\* so the search past the entry starts at the next whole number
PastEntry(entry) == FAdd(1, entry)

\* constant.rs:83  assert!(t_min >= -f64::EPSILON), on whole numbers
EntryAssertion(entry) == FLe(0, entry)

\* the values of rand::random::<f64>().ln() for a number of [0, 1):
\* negative, and -inf for 0
LnRandoms == {-1, -2, -3, NegInf}

\* ConstantMedium::hit over a sphere, for a value of the logarithm of the
\* random number
ConstantMediumHit(cm, r, tmin, tmax, ln) ==
    LET first == SphereHit(cm.boundary, r, NegInf, Inf) IN
    IF first = NoHit THEN NoHit
    ELSE LET entry == FMax(tmin, first.t)
             second == SphereHit(cm.boundary, r, PastEntry(entry), tmax)
         IN  IF second = NoHit THEN NoHit
             ELSE LET exit == FMin(tmax, second.t)
                      ray_length == Sqrt(Dot(r.direction, r.direction))
                      distance_traveled == (exit - entry) * ray_length
                      distance_to_scatter == FMul(ln, cm.negative_reciprocal_density)
                      t == FAdd(entry, IF IsFinite(distance_to_scatter)
                                       THEN distance_to_scatter \div ray_length
                                       ELSE distance_to_scatter)
                  IN  IF entry >= exit THEN NoHit
                      ELSE IF ~EntryAssertion(entry) THEN Panic
                      ELSE IF distance_to_scatter > distance_traveled THEN NoHit
                      ELSE IF ~IsValidPoint(FRayAt(r, t)) THEN Panic
                      ELSE [hit |-> TRUE, t |-> t, point |-> FRayAt(r, t),
                            normal |-> <<NaN, NaN, NaN>>, material |-> "isotropic"]

MediumRanges == TRanges \cup {<<NegInf, Inf>>}

InitMedium ==
    /\ shape \in {ConstantMediumNew(Sphere(c, 1, 1), density) :
                     c \in Centers, density \in {1, -1}}
    /\ shRay = Unset /\ shTMin = 0 /\ shTMax = 0
    /\ shHit = Unset /\ shBox = Unset
    /\ shPc = "new"
    /\ OthersIdle("shape")

\* hit(ray, t_min, t_max) of the medium; the random number is drawn inside
ConstantMediumHitQuery ==
    /\ shPc = "new"
    /\ \E r \in Rays, range \in MediumRanges, ln \in LnRandoms :
         /\ shRay' = r /\ shTMin' = range[1] /\ shTMax' = range[2]
         /\ shHit' = ConstantMediumHit(shape, r, range[1], range[2], ln)
    /\ shPc' = "queried"
    /\ UNCHANGED <<shape, shBox>>
    /\ UNCHANGED notShapeVars

NextMedium == ConstantMediumHitQuery

SpecMedium == InitMedium /\ [][NextMedium]_vars

----------------------------------------------------------------------------
(* Colours and materials (vec3/color.rs, material/*.rs) *)

MaxDepth == 3       \* largest depth argument handed to ray_color

BLACK == <<0, 0, 0>>
WHITE == <<1, 1, 1>>
RED == <<1, 0, 0>>
BLUE == <<0, 0, 1>>

VecMul(p, q) == [i \in Axes |-> p[i] * q[i]]

\* Vec3::is_near_zero: every |component| < EPSILON (1e-10).  The components
\* of the model are whole numbers, for which |x| < 1e-10 is |x| < 1.
IsNearZero(v) == \A i \in Axes : Abs(v[i]) < 1

NoScatter == [scatter |-> "none"]                          \* Option::None
Scattered(att) == [scatter |-> "some", attenuation |-> att]   \* Some((ray, attenuation))

Lambertian(albedo) == [kind |-> "Lambertian", texture |-> albedo, emits |-> BLACK]
Metal(albedo) == [kind |-> "Metal", texture |-> albedo, emits |-> BLACK]
Dielectric == [kind |-> "Dielectric", texture |-> WHITE, emits |-> BLACK]
Isotropic(albedo) == [kind |-> "Isotropic", texture |-> albedo, emits |-> BLACK]
DiffuseLight(c) == [kind |-> "DiffuseLight", texture |-> c, emits |-> c]
\* any other implementation of the Material trait: it may override emit and
\* scatter independently
OtherMaterial(att, e) == [kind |-> "Other", texture |-> att, emits |-> e]

\* Material::emit: the default returns black, DiffuseLight returns its texture
Emit(m) ==
    CASE m.kind = "DiffuseLight" -> m.texture
      [] m.kind = "Other" -> m.emits
      [] OTHER -> BLACK

\* Material::scatter: the attenuations a call may return, or NoScatter
Scatter(m) ==
    CASE m.kind = "Lambertian" -> {Scattered(m.texture)}
      [] m.kind = "Isotropic" -> {Scattered(m.texture)}
      [] m.kind = "Dielectric" -> {Scattered(WHITE)}
      [] m.kind = "Metal" -> {Scattered(m.texture), NoScatter}
      [] m.kind = "DiffuseLight" -> {NoScatter}
      [] OTHER -> {Scattered(m.texture), NoScatter}

Materials ==
    {Lambertian(BLACK), Lambertian(RED), Metal(WHITE), Dielectric, Isotropic(RED),
     DiffuseLight(RED), DiffuseLight(BLACK), OtherMaterial(BLACK, RED),
     OtherMaterial(WHITE, BLUE)}

Backgrounds == {BLACK, BLUE}

----------------------------------------------------------------------------
(* ray_color (lib.rs) as a machine with an explicit call stack *)

\* lib.rs:148  if depth <= 0
DepthExhaustedStrict(depth) == depth < 0

DepthExhausted(depth) == depth <= 0

\* lib.rs:174-175  the value of the miss branch
MissValueBlack(background) == BLACK

MissValue(background) == background

\* lib.rs:168-172  emitted + color, with color = BLACK when scatter is None
AbsorbedValueBlack(emitted) == BLACK

AbsorbedValue(emitted) == VecAdd(emitted, BLACK)

\* lib.rs:161-165  the short circuit: return Color::BLACK
ShortCircuitValue(emitted) == BLACK

\* lib.rs:167-172  emitted + attenuation * ray_color(..., depth - 1, ...)
ScatteredValue(emitted, attenuation, inner) == VecAdd(emitted, VecMul(attenuation, inner))

\* what one level of ray_color did, and the counters when it was entered
Level(case, m, e, sc) ==
    [case |-> case, depth |-> rcDepth, material |-> m, emitted |-> e,
     scatter |-> sc, hitTests |-> rcHitTests, matCalls |-> rcMatCalls,
     stackLen |-> Len(rcStack)]

InitColor ==
    /\ rcDepth \in -1..MaxDepth
    /\ rcBackground \in Backgrounds
    /\ rcStack = <<>>
    /\ rcRet = NoColor
    /\ rcHitTests = 0
    /\ rcMatCalls = 0
    /\ rcLevel = Unset
    /\ rcPc = "call"
    /\ OthersIdle("color")

\* depth <= 0: no more light is gathered
RayColorExhausted ==
    /\ rcPc = "call"
    /\ DepthExhausted(rcDepth)
    /\ rcRet' = BLACK
    /\ rcLevel' = Level("exhausted", Unset, NoColor, Unset)
    /\ rcPc' = "ret"
    /\ UNCHANGED <<rcDepth, rcStack, rcBackground, rcHitTests, rcMatCalls>>
    /\ UNCHANGED notColorVars

\* the scene reports no hit
RayColorMiss ==
    /\ rcPc = "call"
    /\ ~DepthExhausted(rcDepth)
    /\ rcHitTests' = rcHitTests + 1
    /\ rcRet' = MissValue(rcBackground)
    /\ rcLevel' = Level("miss", Unset, NoColor, Unset)
    /\ rcPc' = "ret"
    /\ UNCHANGED <<rcDepth, rcStack, rcBackground, rcMatCalls>>
    /\ UNCHANGED notColorVars

\* the scene reports a hit and the material's scatter returns None
RayColorAbsorbed ==
    /\ rcPc = "call"
    /\ ~DepthExhausted(rcDepth)
    /\ \E m \in Materials :
         /\ NoScatter \in Scatter(m)
         /\ rcRet' = AbsorbedValue(Emit(m))
         /\ rcLevel' = Level("absorbed", m, Emit(m), NoScatter)
    /\ rcHitTests' = rcHitTests + 1
    /\ rcMatCalls' = rcMatCalls + 1
    /\ rcPc' = "ret"
    /\ UNCHANGED <<rcDepth, rcStack, rcBackground>>
    /\ UNCHANGED notColorVars

\* the scene reports a hit and the attenuation returned by scatter is near zero
RayColorShortCircuit ==
    /\ rcPc = "call"
    /\ ~DepthExhausted(rcDepth)
    /\ \E m \in Materials : \E sc \in Scatter(m) \ {NoScatter} :
         /\ IsNearZero(sc.attenuation)
         /\ rcRet' = ShortCircuitValue(Emit(m))
         /\ rcLevel' = Level("nearzero", m, Emit(m), sc)
    /\ rcHitTests' = rcHitTests + 1
    /\ rcMatCalls' = rcMatCalls + 1
    /\ rcPc' = "ret"
    /\ UNCHANGED <<rcDepth, rcStack, rcBackground>>
    /\ UNCHANGED notColorVars

\* the scene reports a hit and the scattered ray is followed with depth - 1
RayColorRecurse ==
    /\ rcPc = "call"
    /\ ~DepthExhausted(rcDepth)
    /\ \E m \in Materials : \E sc \in Scatter(m) \ {NoScatter} :
         /\ ~IsNearZero(sc.attenuation)
         /\ rcStack' = Append(rcStack, <<Emit(m), sc.attenuation>>)
         /\ rcLevel' = Level("scattered", m, Emit(m), sc)
    /\ rcHitTests' = rcHitTests + 1
    /\ rcMatCalls' = rcMatCalls + 1
    /\ rcDepth' = rcDepth - 1
    /\ rcPc' = "call"
    /\ UNCHANGED <<rcRet, rcBackground>>
    /\ UNCHANGED notColorVars

\* the recursive call returned: the caller computes emitted + attenuation * inner
RayColorResume ==
    /\ rcPc = "ret"
    /\ rcStack # <<>>
    /\ LET frame == rcStack[Len(rcStack)] IN
         rcRet' = ScatteredValue(frame[1], frame[2], rcRet)
    /\ rcStack' = SubSeq(rcStack, 1, Len(rcStack) - 1)
    /\ rcDepth' = rcDepth + 1
    /\ rcLevel' = [rcLevel EXCEPT !.case = "resumed"]
    /\ UNCHANGED <<rcPc, rcBackground, rcHitTests, rcMatCalls>>
    /\ UNCHANGED notColorVars

\* the outermost call returned to trace_single
RayColorDone ==
    /\ rcPc = "ret"
    /\ rcStack = <<>>
    /\ rcPc' = "done"
    /\ UNCHANGED <<rcDepth, rcStack, rcRet, rcBackground, rcHitTests, rcMatCalls, rcLevel>>
    /\ UNCHANGED notColorVars

NextColor ==
    \/ RayColorExhausted
    \/ RayColorMiss
    \/ RayColorAbsorbed
    \/ RayColorShortCircuit
    \/ RayColorRecurse
    \/ RayColorResume
    \/ RayColorDone

SpecColor == InitColor /\ [][NextColor]_vars

\* ray_color is straight-line code: a call that can take a step takes it
SpecColorFair == SpecColor /\ WF_colorVars(NextColor)

----------------------------------------------------------------------------
(* A render (main.rs, lib.rs): the scene graph is built, BVH::new asking
   every object for its box, and then traced by the workers of the thread
   pool, each running trace_single / ray_color / hit / scatter *)

RenderWorkers == 1..MaxThreads

\* the objects of the scene: a Rotate around a sphere and a sphere, before
\* any bounding_box call, and not yet in a tree
SceneOf(rt, sphere) ==
    [rotate |-> rt, time_range |-> <<>>, bounding_box |-> NoBox,
     sphere |-> sphere, bvh |-> Unset]

\* Rotate::bounding_box on the Rotate of the scene: the cached box when the
\* range is the cached one, else both caches are written
SceneRotateBoundingBox(scene, tf, tt) ==
    IF CacheIsValid(scene.time_range, tf, tt) THEN scene
    ELSE [scene EXCEPT !.time_range = <<tf, tt>>,
                       !.bounding_box = ComputeRotatedBox(scene.rotate, tf, tt)]

\* a variant of Rotate::hit that brings the caches up to the time of the ray
RotateHitEffectCaching(scene, r, tmin, tmax) ==
    [hit |-> RotateHit(scene.rotate, r, tmin, tmax),
     time_range |-> <<0, 0>>,
     bounding_box |-> ComputeRotatedBox(scene.rotate, 0, 0)]

\* Rotate::hit and what it leaves in the two locks of the Rotate: it reads
\* sin, cos, axis and object, and takes neither lock
RotateHitEffect(scene, r, tmin, tmax) ==
    [hit |-> RotateHit(scene.rotate, r, tmin, tmax),
     time_range |-> scene.time_range,
     bounding_box |-> scene.bounding_box]

\* the answer of a hit call, and the scene with what the call left in the locks
ApplyHitEffect(scene, effect) ==
    [hit |-> effect.hit,
     scene |-> [scene EXCEPT !.time_range = effect.time_range,
                             !.bounding_box = effect.bounding_box]]

\* Hit::hit of a child of the tree: the answer, and the scene after the call
SceneChildHit(scene, child, r, tmin, tmax) ==
    IF child = "rotate" THEN ApplyHitEffect(scene, RotateHitEffect(scene, r, tmin, tmax))
    ELSE [hit |-> SphereHit(scene.sphere, r, tmin, tmax), scene |-> scene]

\* bvh.rs:115-117  t_max = t_max.min(left.t) when the left child was hit
TMaxAfterLeft(left, tmax) == IF left.hit # NoHit THEN FMin(tmax, left.hit.t) ELSE tmax

\* bvh.rs:124  right.or(left)
RightOrLeft(left, right) ==
    [hit |-> IF right.hit # NoHit THEN right.hit ELSE left.hit, scene |-> right.scene]

\* bvh.rs:119-124  the right child is asked in the narrowed range
SecondChildHit(node, left, r, tmin, tmax) ==
    RightOrLeft(left, SceneChildHit(left.scene, node.right, r, tmin, TMaxAfterLeft(left, tmax)))

\* BVH::hit on the root of the scene: the answer, and the scene after the call
SceneHit(scene, r, tmin, tmax) ==
    IF ~IsHit(scene.bvh.box, r, tmin, tmax) THEN [hit |-> NoHit, scene |-> scene]
    ELSE SecondChildHit(scene.bvh, SceneChildHit(scene, scene.bvh.left, r, tmin, tmax),
                        r, tmin, tmax)

\* the rays Camera::cast sends through the pixels
CameraRays == {[origin |-> <<-2, y, 0>>, direction |-> <<1, 0, 0>>] : y \in 0..1}

IdleWorker == [pc |-> "idle"]

InitRender ==
    /\ rdScene \in {SceneOf(RotateNew(Sphere(<<1, 0, 0>>, 1, 1), sc, <<3, 1, 2>>),
                             Sphere(c, 1, 2)) :
                        sc \in QuarterTurns, c \in {<<1, 1, 0>>, <<3, 0, 0>>}}
    /\ rdMaxDepth \in 1..2
    /\ rdPhase = "scene"
    /\ rdWorkers = [w \in RenderWorkers |-> IdleWorker]
    /\ rdTraced = 0
    /\ OthersIdle("render")

\* main.rs: BVH::new over the two objects.  The sort and the merge ask the
\* Rotate for its box, which fills its caches; the children are left in the
\* order of the random axis
SceneBuild ==
    /\ rdPhase = "scene"
    /\ \E asked \in {SceneRotateBoundingBox(rdScene, TimeRange[1], TimeRange[2])},
          sbox \in {SphereBoundingBox(rdScene.sphere)} :
       \E axis \in Axes, order \in {<<"rotate", "sphere">>, <<"sphere", "rotate">>} :
         /\ IF order[1] = "rotate" THEN asked.bounding_box.min[axis] <= sbox.min[axis]
                                   ELSE sbox.min[axis] <= asked.bounding_box.min[axis]
         /\ rdScene' = [asked EXCEPT !.bvh = BVHNode(Merge(asked.bounding_box, sbox),
                                                     order[1], order[2])]
    /\ rdPhase' = "built"
    /\ UNCHANGED <<rdMaxDepth, rdWorkers, rdTraced>>
    /\ UNCHANGED notRenderVars

\* main.rs:533-541  the RayTracer takes the world and trace starts the workers
RenderTrace ==
    /\ rdPhase = "built"
    /\ rdPhase' = "render"
    /\ UNCHANGED <<rdScene, rdMaxDepth, rdWorkers, rdTraced>>
    /\ UNCHANGED notRenderVars

\* trace_single: a worker takes a pixel and casts the ray of its sample
WorkerCast(w) ==
    /\ rdPhase = "render" /\ rdWorkers[w].pc = "idle" /\ rdTraced < MaxImage
    /\ \E r \in CameraRays :
         rdWorkers' = [rdWorkers EXCEPT ![w] = [pc |-> "ray_color", ray |-> r,
                                                depth |-> rdMaxDepth]]
    /\ rdTraced' = rdTraced + 1
    /\ UNCHANGED <<rdScene, rdMaxDepth, rdPhase>>
    /\ UNCHANGED notRenderVars

\* ray_color: the depth test and the hit test of the scene
WorkerRayColor(w) ==
    /\ rdPhase = "render" /\ rdWorkers[w].pc = "ray_color"
    /\ IF DepthExhausted(rdWorkers[w].depth)
       THEN /\ rdWorkers' = [rdWorkers EXCEPT ![w] = [pc |-> "return"]]
            /\ UNCHANGED rdScene
       ELSE \E answer \in {SceneHit(rdScene, rdWorkers[w].ray, 1, Inf)} :
                /\ rdScene' = answer.scene
                /\ rdWorkers' = [rdWorkers EXCEPT ![w] =
                       IF answer.hit = NoHit THEN [pc |-> "return"]
                       ELSE [pc |-> "scatter", ray |-> rdWorkers[w].ray,
                             depth |-> rdWorkers[w].depth, hit |-> answer.hit]]
    /\ UNCHANGED <<rdMaxDepth, rdPhase, rdTraced>>
    /\ UNCHANGED notRenderVars

\* the material of the hit: emitted and scatter take &self and the record;
\* None ends the path, a scattered ray is followed with depth - 1
WorkerScatter(w) ==
    /\ rdPhase = "render" /\ rdWorkers[w].pc = "scatter"
    /\ \/ rdWorkers' = [rdWorkers EXCEPT ![w] = [pc |-> "return"]]
       \/ \E direction \in {rdWorkers[w].hit.normal,
                              VecScale(-1, rdWorkers[w].ray.direction)} :
            /\ RayNew(rdWorkers[w].hit.point, direction) # Panic
            /\ rdWorkers' = [rdWorkers EXCEPT ![w] =
                   [pc |-> "ray_color", ray |-> RayNew(rdWorkers[w].hit.point, direction),
                    depth |-> rdWorkers[w].depth - 1]]
    /\ UNCHANGED <<rdScene, rdMaxDepth, rdPhase, rdTraced>>
    /\ UNCHANGED notRenderVars

\* trace_single returns the colour of the pixel
WorkerReturn(w) ==
    /\ rdPhase = "render" /\ rdWorkers[w].pc = "return"
    /\ rdWorkers' = [rdWorkers EXCEPT ![w] = IdleWorker]
    /\ UNCHANGED <<rdScene, rdMaxDepth, rdPhase, rdTraced>>
    /\ UNCHANGED notRenderVars

\* collect: every pixel was traced
RenderCollect ==
    /\ rdPhase = "render" /\ rdTraced = MaxImage
    /\ \A w \in RenderWorkers : rdWorkers[w].pc = "idle"
    /\ rdPhase' = "done"
    /\ UNCHANGED <<rdScene, rdMaxDepth, rdWorkers, rdTraced>>
    /\ UNCHANGED notRenderVars

NextRender ==
    \/ SceneBuild
    \/ RenderTrace
    \/ \E w \in RenderWorkers :
         WorkerCast(w) \/ WorkerRayColor(w) \/ WorkerScatter(w) \/ WorkerReturn(w)
    \/ RenderCollect

SpecRender == InitRender /\ [][NextRender]_vars

----------------------------------------------------------------------------
(* The functions that construct a Ray (ray.rs, camera/mod.rs, material/*.rs,
   hit/translation.rs, hit/rotation.rs).  Lengths are counted in halves, so
   that a vector shorter than 1.0 can be told from the zero vector: a unit
   vector has one component of 2. *)

ZeroVec == <<0, 0, 0>>

\* the unit vectors along the axes, and the points rays start from
AxisUnits == {VecScale(2, d) : d \in Directions}
RayOrigins == {<<x, 0, 0>> : x \in -2..2}

\* Vec3::random_in_unit_sphere: a vector of norm < 1.0, the zero vector included
RandomInUnitSphere == {<<x, y, z>> : x \in -1..1, y \in -1..1, z \in -1..1}

\* Point3::random_in_disk(radius): zeros for a radius <= EPSILON, else a
\* point of the disk of that radius in the XY plane
RandomInDisk(radius) ==
    IF radius <= 0 THEN {ZeroVec}
    ELSE {<<radius * x, radius * y, 0>> : x \in -1..1, y \in -1..1}

\* Vec3::normalized asserts !is_near_zero and divides by the norm; the
\* vectors it is applied to lie along an axis
Normalized(v) ==
    IF IsNearZero(v) THEN Panic
    ELSE [i \in Axes |-> (2 * v[i]) \div Sqrt(Dot(v, v))]

\* Vec3::reflect: v - 2 (v . n) n
Reflect(v, n) == [i \in Axes |-> v[i] - ((Dot(v, n) * n[i]) \div 2)]

\* Vec3::refract of a unit vector at a unit normal, with the given ratio
Refract(v, n, ratio) ==
    LET cosTheta == FMin(0 - Dot(v, n), 4) \div 2
        perpendicular == VecScale(ratio, [i \in Axes |-> v[i] + ((n[i] * cosTheta) \div 2)])
        parallel == VecScale(0 - Sqrt(Abs(4 - Dot(perpendicular, perpendicular))),
                             [i \in Axes |-> n[i] \div 2])
    IN  VecAdd(perpendicular, parallel)

\* the cameras CameraBuilder::build returns: one looking down -z through a
\* viewport of 2 x 2 at distance 1, the same with a lens of radius 1, and
\* one built with focus_distance 0, whose viewport is the point look_from
Cameras ==
    {[origin |-> ZeroVec, lower_left_corner |-> <<-2, -2, -2>>,
      horizontal |-> <<4, 0, 0>>, vertical |-> <<0, 4, 0>>,
      u |-> <<2, 0, 0>>, v |-> <<0, 2, 0>>, lens_radius |-> r] : r \in {0, 1}}
    \cup {[origin |-> ZeroVec, lower_left_corner |-> ZeroVec,
           horizontal |-> ZeroVec, vertical |-> ZeroVec,
           u |-> <<2, 0, 0>>, v |-> <<0, 2, 0>>, lens_radius |-> 0]}

\* the normals a hit record can hold against the ray: unit, not along it
NormalsAgainst(direction) == {n \in AxisUnits : Dot(direction, n) <= 0}

InitRay ==
    /\ ryRay = Unset /\ ryAsked = <<>> /\ ryPath = "none" /\ ryPc = "start"
    /\ OthersIdle("ray")

\* the call of Ray::new that ends a construction path
RayNewFrom(path, origin, direction) ==
    /\ ryPath' = path
    /\ ryAsked' = direction
    /\ ryRay' = RayNew(origin, direction)
    /\ ryPc' = (IF RayNew(origin, direction) = Panic THEN "panicked" ELSE "live")
    /\ UNCHANGED notRayVars

\* an assertion of the path fails before Ray::new is reached
AbortBeforeRayNew(path) ==
    /\ ryPath' = path
    /\ ryAsked' = <<>>
    /\ ryRay' = Panic
    /\ ryPc' = "panicked"
    /\ UNCHANGED notRayVars

\* Ray::new(origin, direction, time), called by any user of the crate
RayNewCall ==
    /\ ryPc \in {"start", "live"}
    /\ \E origin \in RayOrigins, direction \in RandomInUnitSphere \cup AxisUnits :
         RayNewFrom("Ray::new", origin, direction)

\* Ray::move_origin_by(offset)
MoveOriginBy ==
    /\ ryPc = "live"
    /\ \E offset \in {<<x, 0, 0>> : x \in -1..1} :
         /\ VecAdd(ryRay.origin, offset) \in RayOrigins
         /\ RayNewFrom("Ray::move_origin_by", VecAdd(ryRay.origin, offset), ryRay.direction)

\* Camera::cast(u, v)
CameraCast ==
    /\ ryPc \in {"start", "live"}
    /\ \E cam \in Cameras, u \in {0, 1}, v \in {0, 1} :
       \E random \in RandomInDisk(cam.lens_radius) :
         LET offset == VecAdd(VecScale(random[1], cam.u), VecScale(random[2], cam.v))
             origin == VecAdd(cam.origin, [i \in Axes |-> offset[i] \div 2])
             destination == VecAdd(cam.lower_left_corner,
                                   VecAdd(VecScale(u, cam.horizontal), VecScale(v, cam.vertical)))
         IN  /\ origin \in RayOrigins
             /\ RayNewFrom("Camera::cast", origin, VecSub(destination, origin))

\* Translate::hit: the ray is moved by -offset
TranslateHitRay ==
    /\ ryPc = "live"
    /\ \E offset \in {<<x, 0, 0>> : x \in -1..1} :
         /\ VecSub(ryRay.origin, offset) \in RayOrigins
         /\ RayNewFrom("Translate::hit", VecSub(ryRay.origin, offset), ryRay.direction)

\* Rotate::hit: origin and direction go through rotate
RotateHitRay ==
    /\ ryPc = "live"
    /\ \E sc \in QuarterTurns, axis \in RotateAxes :
         LET rt == RotateNew(Unbounded, sc, axis) IN
         /\ RotatePoint(rt, ryRay.origin) \in RayOrigins
         /\ RayNewFrom("Rotate::hit", RotatePoint(rt, ryRay.origin),
                       RotatePoint(rt, ryRay.direction))

\* Lambertian::scatter
LambertianScatter ==
    /\ ryPc = "live" /\ ryRay.direction \in AxisUnits
    /\ \E point \in RayOrigins, normal \in NormalsAgainst(ryRay.direction) :
       \E random \in {r \in RandomInUnitSphere : Cardinality({i \in Axes : r[i] # 0}) <= 1} :
         IF Normalized(random) = Panic THEN AbortBeforeRayNew("Lambertian::scatter")
         ELSE LET scatter_direction == VecAdd(normal, Normalized(random))
                  direction == IF IsNearZero(scatter_direction) THEN normal
                               ELSE scatter_direction
              IN  RayNewFrom("Lambertian::scatter", point, direction)

\* Metal::scatter, for a fuzziness of 0.0 and of 2.0
MetalScatter ==
    /\ ryPc = "live" /\ ryRay.direction \in AxisUnits
    /\ \E point \in RayOrigins, normal \in NormalsAgainst(ryRay.direction) :
       \E random \in RandomInUnitSphere, fuzziness \in {0, 2} :
         LET reflected == Normalized(Reflect(ryRay.direction, normal))
         IN  IF reflected = Panic THEN AbortBeforeRayNew("Metal::scatter")
             ELSE RayNewFrom("Metal::scatter", point,
                             VecAdd(reflected, VecScale(fuzziness, random)))

\* Dielectric::scatter, for an index of refraction of 1.0
DielectricScatter ==
    /\ ryPc = "live" /\ ryRay.direction \in AxisUnits
    /\ \E point \in RayOrigins, normal \in NormalsAgainst(ryRay.direction) :
       \E reflects \in BOOLEAN :
         LET unit_direction == Normalized(ryRay.direction)
             direction == IF reflects THEN Reflect(unit_direction, normal)
                          ELSE Refract(unit_direction, normal, 1)
         IN  RayNewFrom("Dielectric::scatter", point, direction)

\* Isotropic::scatter
IsotropicScatter ==
    /\ ryPc = "live"
    /\ \E point \in RayOrigins, random \in RandomInUnitSphere :
         RayNewFrom("Isotropic::scatter", point, random)

NextRay ==
    \/ RayNewCall
    \/ MoveOriginBy
    \/ CameraCast
    \/ TranslateHitRay
    \/ RotateHitRay
    \/ LambertianScatter
    \/ MetalScatter
    \/ DielectricScatter
    \/ IsotropicScatter

SpecRay == InitRay /\ [][NextRay]_vars

----------------------------------------------------------------------------
(* Claims about BVH and World *)

\* the hits the elements of the collection report in the caller's range
ElementHits(objs, r, tmin, tmax) ==
    {SphereHit(objs[i], r, tmin, tmax) : i \in 1..Len(objs)} \ {NoHit}

\* C1 as stated: for every non-empty object list, ray and range, whatever
\* tree BVH::new built, BVH::hit reports a hit exactly when World::hit does,
\* with the same t, and with the same point and material when only one
\* element hits at that t.
C1_BVHAgreesWithWorld ==
    sPc = "queried" =>
        /\ (bvhHit = NoHit) <=> (worldHit = NoHit)
        /\ (bvhHit # NoHit /\ worldHit # NoHit) =>
              /\ bvhHit.t = worldHit.t
              /\ Cardinality({h \in ElementHits(objects, ray, tMin, tMax) : h.t = worldHit.t}) = 1
                    => (bvhHit.point = worldHit.point /\ bvhHit.material = worldHit.material)

\* indices of the elements whose own hit in the caller's range has the least t
NearestElements(objs, r, tmin, tmax) ==
    {i \in 1..Len(objs) :
        /\ SphereHit(objs[i], r, tmin, tmax) # NoHit
        /\ \A h \in ElementHits(objs, r, tmin, tmax) :
              SphereHit(objs[i], r, tmin, tmax).t <= h.t}

SetMin(S) == CHOOSE x \in S : \A y \in S : x <= y
SetMax(S) == CHOOSE x \in S : \A y \in S : x >= y

\* the t_max element i would be handed if World::hit narrowed t_max to the
\* best hit among the elements tested before it
NarrowedTMax(objs, r, tmin, tmax, i) ==
    LET before == {SphereHit(objs[j], r, tmin, tmax).t : j \in
                     {k \in 1..(i - 1) : SphereHit(objs[k], r, tmin, tmax) # NoHit}}
    IN  IF before = {} THEN tmax ELSE FMin(tmax, SetMin(before))

\* the part of C9 about the value World::hit returns
WorldHitIsNearest ==
    /\ (worldHit = NoHit) <=> (ElementHits(objects, ray, tMin, tMax) = {})
    /\ worldHit # NoHit =>
          /\ worldHit \in ElementHits(objects, ray, tMin, tMax)
          /\ \A h \in ElementHits(objects, ray, tMin, tMax) : worldHit.t <= h.t

\* C9 as stated: World::hit returns nothing exactly when no element hits in
\* the range, otherwise a record with the least t, and it tests each element
\* with t_max narrowed to the best hit found so far.
C9_WorldHitNarrowsTMax ==
    sPc = "queried" =>
        /\ WorldHitIsNearest
        /\ \A i \in 1..Len(objects) :
              worldCalls[i] = NarrowedTMax(objects, ray, tMin, tMax, i)

\* C9 amended: World::hit returns nothing exactly when no element hits in
\* the range, otherwise a record with the least t over the hits of all
\* elements; every element is tested with the caller's own t_max, and the
\* minimum is taken over the collected hits.
C9_WorldHitIsMinimum ==
    sPc = "queried" =>
        /\ WorldHitIsNearest
        /\ \A i \in 1..Len(objects) : worldCalls[i] = tMax

\* three elements hit at different t and the nearest is not the first one
C9_Witness ==
    /\ sPc = "queried" /\ worldHit # NoHit
    /\ Cardinality({h.t : h \in ElementHits(objects, ray, tMin, tMax)}) >= 2
    /\ SphereHit(objects[1], ray, tMin, tMax) # NoHit
    /\ worldHit.t < SphereHit(objects[1], ray, tMin, tMax).t
    /\ worldCalls[Len(objects)] = tMax

\* C10 as stated: when several elements hit with equal least t, World::hit
\* returns the record of the element that comes last in the collection.
C10_LastElementWinsTie ==
    (sPc = "queried" /\ worldHit # NoHit) =>
        worldHit = SphereHit(objects[SetMax(NearestElements(objects, ray, tMin, tMax))],
                             ray, tMin, tMax)

\* C10 amended: when several elements hit with equal least t, World::hit
\* returns the record of the element that comes first in the collection.
C10_FirstElementWinsTie ==
    (sPc = "queried" /\ worldHit # NoHit) =>
        worldHit = SphereHit(objects[SetMin(NearestElements(objects, ray, tMin, tMax))],
                             ray, tMin, tMax)

\* two elements with different materials hit at the same least t, after an
\* element that hits farther away
C10_Witness ==
    /\ sPc = "queried" /\ worldHit # NoHit
    /\ Cardinality(NearestElements(objects, ray, tMin, tMax)) >= 2
    /\ 1 \notin NearestElements(objects, ray, tMin, tMax)
    /\ SphereHit(objects[1], ray, tMin, tMax) # NoHit
    /\ worldHit.material = SetMin(NearestElements(objects, ray, tMin, tMax))

----------------------------------------------------------------------------
(* Claims about ray_color *)

\* C2: a call of ray_color with depth <= 0 returns black, whatever the
\* background and the scene, without a scene hit test, without a material
\* call and without a recursive call.
C2_DepthExhaustedIsBlack ==
    [][(rcPc = "call" /\ rcDepth <= 0) =>
          /\ rcPc' = "ret"
          /\ rcRet' = BLACK
          /\ rcHitTests' = rcHitTests
          /\ rcMatCalls' = rcMatCalls
          /\ rcStack' = rcStack]_vars

\* a recursive call entered with depth 0 under a non-black background returned
C2_Witness ==
    /\ rcPc = "ret" /\ rcLevel # Unset /\ rcLevel.case = "exhausted"
    /\ rcLevel.depth = 0 /\ rcStack # <<>> /\ rcBackground # BLACK
    /\ rcRet = BLACK /\ rcHitTests > 0

\* C3 as stated: when the attenuation returned by scatter is near zero the
\* level does not recurse and returns exactly the emitted colour of the hit.
C3_ShortCircuitReturnsEmitted ==
    (rcPc = "ret" /\ rcLevel # Unset /\ rcLevel.case = "nearzero") =>
        /\ Len(rcStack) = rcLevel.stackLen
        /\ rcRet = rcLevel.emitted

\* C4: with depth >= 1, when the scene reports no hit the level returns
\* exactly the background: nothing is added, no material is called and
\* there is no recursive call.
C4_MissReturnsBackground ==
    (rcPc = "ret" /\ rcLevel # Unset /\ rcLevel.case = "miss") =>
        /\ rcLevel.depth >= 1
        /\ rcRet = rcBackground
        /\ rcHitTests = rcLevel.hitTests + 1
        /\ rcMatCalls = rcLevel.matCalls
        /\ Len(rcStack) = rcLevel.stackLen
        /\ rcDepth = rcLevel.depth

\* a miss under a non-black background, in the outermost and in a nested call
C4_Witness ==
    /\ rcPc = "ret" /\ rcLevel # Unset /\ rcLevel.case = "miss"
    /\ rcBackground = BLUE /\ rcRet = BLUE /\ rcStack # <<>>

\* C5: with depth >= 1, when scatter returns nothing the level returns
\* exactly the emitted colour of the hit and does not recurse; DiffuseLight
\* never scatters and emits its texture, a material with the default emit
\* contributes black.
C5_AbsorbedReturnsEmitted ==
    /\ (rcPc = "ret" /\ rcLevel # Unset /\ rcLevel.case = "absorbed") =>
          /\ rcLevel.depth >= 1
          /\ rcRet = rcLevel.emitted
          /\ Len(rcStack) = rcLevel.stackLen
          /\ rcLevel.material.kind = "DiffuseLight" => rcRet = rcLevel.material.texture
          /\ rcLevel.material.kind \in {"Lambertian", "Metal", "Dielectric", "Isotropic"}
               => rcRet = BLACK
    /\ (rcLevel # Unset /\ rcLevel.case \in {"nearzero", "scattered"}) =>
          rcLevel.material.kind # "DiffuseLight"

\* a red DiffuseLight hit in a nested call, at remaining depth 1
C5_Witness ==
    /\ rcPc = "ret" /\ rcLevel # Unset /\ rcLevel.case = "absorbed"
    /\ rcLevel.material = DiffuseLight(RED) /\ rcRet = RED
    /\ rcStack # <<>> /\ rcLevel.depth = 1

----------------------------------------------------------------------------
(* Claims about AABB::merge *)

\* C6: on boxes with min <= max on every axis merge is commutative,
\* associative and idempotent, and every one of the merges completes.
C6_MergeAlgebra ==
    (mPc = "done" /\ IsValidBox(mA) /\ IsValidBox(mB) /\ IsValidBox(mC)) =>
        /\ mAB # Panic /\ mBC # Panic /\ mL # Panic /\ mR # Panic
        /\ mAB = mBA
        /\ mL = mR
        /\ mAA = mA

\* three different valid boxes, none of which contains the merge of the others
C6_Witness ==
    /\ mPc = "done" /\ IsValidBox(mA) /\ IsValidBox(mB) /\ IsValidBox(mC)
    /\ mA # mB /\ mB # mC /\ mA # mC
    /\ mAB # mA /\ mAB # mB /\ mL # mAB /\ mL # mC /\ mL = mR

\* C7 as stated: merging any AABB value the program holds, the sentinel
\* included, with EMPTY on either side completes and returns that value.
C7_EmptyIsIdentity ==
    (mPc # "start" /\ mB = EMPTY) => (mAB = mA /\ mBA = mA)

\* C8: merge(a, b) of valid boxes is the tightest box containing both: each
\* of its faces lies on a face of a or of b, it contains a and b, and every
\* valid box that contains a and b contains it.
C8_MergeTightest ==
    (mPc = "pair" /\ IsValidBox(mA) /\ IsValidBox(mB)) =>
        /\ IsValidBox(mAB)
        /\ \A i \in Axes :
             /\ mAB.min[i] \in {mA.min[i], mB.min[i]}
             /\ mAB.min[i] <= mA.min[i] /\ mAB.min[i] <= mB.min[i]
             /\ mAB.max[i] \in {mA.max[i], mB.max[i]}
             /\ mAB.max[i] >= mA.max[i] /\ mAB.max[i] >= mB.max[i]
        /\ Contains(mAB, mA) /\ Contains(mAB, mB)
        /\ \A d \in ValidBoxes :
             (Contains(d, mA) /\ Contains(d, mB)) => Contains(d, mAB)

\* two valid boxes neither of which contains the other
C8_Witness ==
    /\ mPc = "pair" /\ IsValidBox(mA) /\ IsValidBox(mB)
    /\ ~Contains(mA, mB) /\ ~Contains(mB, mA)
    /\ IsValidBox(mAB) /\ mAB # mA /\ mAB # mB

----------------------------------------------------------------------------
(* Claims about the range of a hit query *)

\* C11 as stated: a record returned by hit(ray, t_min, t_max), by a sphere,
\* by a World or by a BVH, has its t strictly inside (t_min, t_max).
C11_HitStrictlyInsideRange ==
    sPc = "queried" =>
        \A h \in ElementHits(objects, ray, tMin, tMax) \cup ({worldHit, bvhHit} \ {NoHit}) :
            tMin < h.t /\ h.t < tMax

----------------------------------------------------------------------------
(* Claims about Sphere::hit *)

\* the parameters at which the ray meets the sphere, found by trying every
\* whole parameter (in the family every root is a whole number)
RootBound == MaxRadius * (MaxCenter + 6)
SphereRoots(s, r) ==
    {t \in (0 - RootBound)..RootBound :
        Dot(VecSub(RayAt(r, t), s.center), VecSub(RayAt(r, t), s.center))
            = s.radius * s.radius}

\* C12: Sphere hit returns nothing when no root lies in [t_min, t_max],
\* otherwise the smallest root in [t_min, t_max], with point = origin +
\* t * direction and normal (point - center) / radius; a ray from (0,0,2r)
\* towards the centre of a radius-r sphere at the origin hits at t = r with
\* normal (0,0,1).
C12_SphereSmallestRoot ==
    shPc = "queried" =>
        LET inRange == {t \in SphereRoots(shape, shRay) : shTMin <= t /\ t <= shTMax}
        IN  /\ (shHit = NoHit) <=> (inRange = {})
            /\ shHit # NoHit =>
                  /\ shHit.t = SetMin(inRange)
                  /\ shHit.point = RayAt(shRay, shHit.t)
                  /\ \A i \in Axes :
                        shHit.normal[i] * shape.radius = shHit.point[i] - shape.center[i]
            /\ (/\ shape.center = <<0, 0, 0>>
                /\ shRay = [origin |-> <<0, 0, 2 * shape.radius>>, direction |-> <<0, 0, -1>>]
                /\ shTMin <= shape.radius /\ shape.radius <= shTMax)
                  => (shHit # NoHit /\ shHit.t = shape.radius /\ shHit.normal = <<0, 0, 1>>)

\* the ray from (0,0,2r) towards a sphere of radius r > 1 at the origin, with
\* both roots r and 3r in the range
C12_Witness ==
    /\ shPc = "queried" /\ shape.radius > 1 /\ shape.center = <<0, 0, 0>>
    /\ shRay = [origin |-> <<0, 0, 2 * shape.radius>>, direction |-> <<0, 0, -1>>]
    /\ shTMin = 0 /\ shTMax = Inf
    /\ shHit # NoHit /\ shHit.t = shape.radius /\ shHit.normal = <<0, 0, 1>>
    /\ Cardinality({t \in SphereRoots(shape, shRay) : shTMin <= t /\ t <= shTMax}) = 2

----------------------------------------------------------------------------
(* Claims about rectangles and blocks *)

\* the point lies in the box, faces included
PointInBox(box, p) == \A i \in Axes : box.min[i] <= p[i] /\ p[i] <= box.max[i]

\* C13 as stated: for every rectangle of the three orientations built with
\* increasing bounds, bounding_box completes with min <= max on every axis,
\* spans exactly the two in-plane intervals on their own axes, is strictly
\* thick around the fixed coordinate on the third axis, and contains every
\* point hit returns.
C13_RectangleBoxSpansRectangle ==
    shPc \in {"boxed", "queried"} =>
        /\ IsValidBox(shBox)
        /\ shBox.min[shape.plane[1]] = shape.x0 /\ shBox.max[shape.plane[1]] = shape.x1
        /\ shBox.min[shape.plane[2]] = shape.y0 /\ shBox.max[shape.plane[2]] = shape.y1
        /\ shBox.min[shape.plane[3]] < shape.z /\ shape.z < shBox.max[shape.plane[3]]
        /\ (shPc = "queried" /\ shHit # NoHit /\ shHit # Panic) => PointInBox(shBox, shHit.point)

\* the rectangle is the face of the box [minp, maxp] on the plane where the
\* coordinate of the axis equals z
IsFaceOf(rc, minp, maxp, axis, z) ==
    /\ rc.plane[3] = axis /\ rc.z = z
    /\ rc.x0 = minp[rc.plane[1]] /\ rc.x1 = maxp[rc.plane[1]]
    /\ rc.y0 = minp[rc.plane[2]] /\ rc.y1 = maxp[rc.plane[2]]

\* the point lies on the surface of the box [minp, maxp]
OnBoundary(minp, maxp, p) ==
    /\ \A i \in Axes : minp[i] <= p[i] /\ p[i] <= maxp[i]
    /\ \E i \in Axes : p[i] = minp[i] \/ p[i] = maxp[i]

\* C14 as stated: the six rectangles of Block::new(min, max) are the faces
\* of the box on the planes x = min.x, x = max.x, y = min.y, y = max.y,
\* z = min.z, z = max.z, each spanning the box on the other two axes; every
\* hit point of the block lies on the boundary of [min, max] and inside the
\* bounding box AABB(min, max).
C14_BlockFacesCloseBox ==
    shPc \in {"boxed", "queried"} =>
        /\ \A axis \in Axes :
              /\ \E i \in 1..6 : IsFaceOf(shape.rectangles[i], shape.min_point,
                                         shape.max_point, axis, shape.min_point[axis])
              /\ \E i \in 1..6 : IsFaceOf(shape.rectangles[i], shape.min_point,
                                         shape.max_point, axis, shape.max_point[axis])
        /\ shBox = [min |-> shape.min_point, max |-> shape.max_point]
        /\ (shPc = "queried" /\ shHit # NoHit /\ shHit # Panic) =>
              /\ OnBoundary(shape.min_point, shape.max_point, shHit.point)
              /\ PointInBox(shBox, shHit.point)

----------------------------------------------------------------------------
(* Claims about the cache of Rotate::bounding_box *)

\* the calls of the log that computed the rotated box for the pair
ComputationsOf(pair) == {k \in 1..Len(rotLog) : rotLog[k].computed /\ rotLog[k].pair = pair}

\* C15 as stated: over any sequence of bounding_box calls the rotated box is
\* computed at most once for each distinct (time_from, time_to) pair (of
\* numbers: a NaN is not counted as a time).
C15_ComputedOncePerPair ==
    \A pair \in TimePairs :
        (pair[1] # NaN /\ pair[2] # NaN) => Cardinality(ComputationsOf(pair)) <= 1

\* C15 amended: a call is served from the cache exactly when its pair
\* compares equal to the pair of the call just before it; every other call
\* computes the rotated box of the child for its own pair.  Either way the
\* call returns the rotated box of the child for the pair it was given.
C15_CachedWhenPairRepeatsPreviousCall ==
    \A k \in 1..Len(rotLog) :
        /\ rotLog[k].computed <=>
              ~(k > 1 /\ rotLog[k - 1].pair = rotLog[k].pair /\ rotLog[k].pair[1] # NaN)
        /\ rotLog[k].ret = ComputeRotatedBox(rotate, rotLog[k].pair[1], rotLog[k].pair[2])

\* a pair served from the cache on its repetition and computed again when
\* it comes back after another pair, under a quarter turn of a moving child
C15_Witness ==
    /\ Len(rotLog) = 4 /\ rotate.sin = 1 /\ rotate.object.kind = "moving"
    /\ rotLog[1].pair = <<0, 1>> /\ rotLog[1].computed
    /\ rotLog[2].pair = <<0, 1>> /\ ~rotLog[2].computed
    /\ rotLog[3].pair = <<0, 0>> /\ rotLog[3].computed
    /\ rotLog[4].pair = <<0, 1>> /\ rotLog[4].computed
    /\ rotLog[4].ret = rotLog[2].ret /\ rotLog[3].ret # rotLog[4].ret
    /\ IsValidBox(rotLog[4].ret)

----------------------------------------------------------------------------
(* Claims about format_color *)

\* C17: for every colour, components above 1, negative and non-finite ones
\* included, format_color produces three integers in 0..255; the colour
\* (1.0, 0.0, 0.0) formats to 255 0 0.
C17_FormatColorInByteRange ==
    fcPc = "done" =>
        /\ \A i \in Axes : fcOut[i] \in 0..255
        /\ fcColor = <<ColorScale, 0, 0>> => fcOut = <<255, 0, 0>>

\* a colour with a component above 1, a negative one and a NaN was formatted
C17_Witness ==
    /\ fcPc = "done" /\ fcColor = <<96, -32, NaN>> /\ fcOut = <<255, 0, 0>>

----------------------------------------------------------------------------
(* Claims about trace_in *)

\* the n-th colour line of an image in raster order, n counted from 1: the
\* rows from the top of the image down, each row from left to right
RasterLine(n) ==
    LET fromTop == (n - 1) \div tiWidth
        column == (n - 1) % tiWidth
    IN  [line |-> "pixel", rgb |-> FormatColor(ImageColor(column, (tiHeight - 1) - fromTop))]

\* C16: trace_in writes the header lines P3, width height, 255 and then
\* exactly width * height colour lines, one per pixel, each pixel traced
\* exactly once, in raster order, whatever the order in which the workers
\* ran the pixels.
C16_RasterOrder ==
    /\ tiPc \in {"tracing", "writing", "done", "panicked"} =>
          /\ Len(tiBuffer) >= 3
          /\ tiBuffer[1] = [line |-> "P3"]
          /\ tiBuffer[2] = [line |-> "size", width |-> tiWidth, height |-> tiHeight]
          /\ tiBuffer[3] = [line |-> "max", value |-> 255]
          /\ \A n \in 1..(Len(tiBuffer) - 3) : tiBuffer[n + 3] = RasterLine(n)
    /\ tiPc = "done" =>
          /\ Len(tiBuffer) = 3 + tiWidth * tiHeight
          /\ \A k \in Pixels : tiTraced[k + 1] = 1
    /\ \A k \in 1..Len(tiTraced) : tiTraced[k] <= 1

\* an image of two rows and three columns was written in full after its
\* pixels were traced out of order
C16_Witness ==
    /\ tiPc = "done" /\ tiOutOfOrder /\ tiHeight = 2 /\ tiWidth = 3
    /\ Len(tiBuffer) = 9
    /\ tiBuffer[4] # tiBuffer[7]

\* C18 as stated: when a pixel's tracing panics, trace_in has written
\* nothing to the output buffer, header lines included.
C18_NothingEmittedOnPanic ==
    tiPc = "panicked" => tiBuffer = <<>>

----------------------------------------------------------------------------
(* Claims about trace_single *)

RECURSIVE SumColors(_)
SumColors(log) ==
    IF log = <<>> THEN BLACK
    ELSE VecAdd(SampleColor(Head(log).u, Head(log).v), SumColors(Tail(log)))

\* the position of the pixel itself, without any offset
PixelPosition(sample) ==
    /\ sample.u = [num |-> 2 * tsI, den |-> 2 * (tsWidth - 1)]
    /\ sample.v = [num |-> 2 * (tsHeight - tsJ - 1), den |-> 2 * (tsHeight - 1)]

\* the position of the pixel plus an offset of [0, 1) on each coordinate
\* drawn from the generator
JitteredPosition(sample) ==
    /\ sample.gen = 2
    /\ sample.u.den = 2 * (tsWidth - 1) /\ sample.v.den = 2 * (tsHeight - 1)
    /\ sample.u.num - 2 * tsI \in {0, 1}
    /\ sample.v.num - 2 * (tsHeight - tsJ - 1) \in {0, 1}

\* C19 as stated: for every samples_per_pixel N trace_single evaluates
\* ray_color exactly N times, every time on a jittered position, and
\* returns the sum of the N results divided by N.
C19_NSamplesAllJittered ==
    tsPc = "done" =>
        /\ Len(tsLog) = tsN
        /\ \A k \in 1..Len(tsLog) : JitteredPosition(tsLog[k])
        /\ tsOut = ColorDiv(SumColors(tsLog), tsN)

\* C19 amended: for N >= 1 trace_single evaluates ray_color exactly N
\* times, first on the pixel's own position without any offset and then
\* N - 1 times on a jittered position, and returns the sum divided by N;
\* for N = 0 it evaluates the one sample without offset and divides its
\* colour by zero.
C19_FirstSampleUnjittered ==
    tsPc = "done" =>
        /\ Len(tsLog) = (IF tsN = 0 THEN 1 ELSE tsN)
        /\ tsLog[1].gen = 0 /\ PixelPosition(tsLog[1])
        /\ \A k \in 2..Len(tsLog) : JitteredPosition(tsLog[k])
        /\ tsOut = ColorDiv(SumColors(tsLog), tsN)
        /\ tsN = 0 => \A a \in Axes : tsOut[a] \in {Inf, NaN}

\* three samples were taken, the later two on different jittered positions
C19_Witness ==
    /\ tsPc = "done" /\ tsN = 3 /\ Len(tsLog) = 3
    /\ tsLog[2] # tsLog[3] /\ tsLog[2].u.num # 2 * tsI
    /\ tsOut # SampleColor(tsLog[1].u, tsLog[1].v)

----------------------------------------------------------------------------
(* Claims about BVH::new *)

\* some object of the tree, at any depth, has no bounding box
RECURSIVE HoldsUnbounded(_)
HoldsUnbounded(node) ==
    IF node.kind = "bvh"
    THEN \/ node.left # NoChild /\ HoldsUnbounded(node.left)
         \/ node.right # NoChild /\ HoldsUnbounded(node.right)
    ELSE BoundingBox(node, TimeRange[1], TimeRange[2]) = NoBox

\* C20: BVH::new panics and returns no tree when the object list is empty
\* and when any object of the list has no bounding box, for lists of one,
\* two and more objects; a tree it returns holds no object without a
\* bounding box.
C20_BVHNewRejectsUnbounded ==
    /\ (sPc \in {"built", "panicked"} /\
        (objects = <<>> \/ \E i \in 1..Len(objects) : objects[i] = Unbounded))
          => sPc = "panicked" /\ bvh = Panic
    /\ sPc = "built" => bvh # Panic /\ ~HoldsUnbounded(bvh)

\* a list of three objects, the last of them without a bounding box, was
\* refused
C20_Witness ==
    /\ sPc = "panicked" /\ Len(objects) = 3
    /\ objects[1] # Unbounded /\ objects[2] # Unbounded /\ objects[3] = Unbounded

----------------------------------------------------------------------------
(* Claims about Rotate::hit *)

\* C30 as stated: rotate_inv undoes rotate on every point, and every hit
\* point reported by Rotate::hit lies inside the box returned by
\* Rotate::bounding_box, for the three axes and the quarter turns.
C30_RotateHitInsideBox ==
    shPc = "queried" =>
        /\ \A p \in Origins : RotateInv(shape, RotatePoint(shape, p)) = p
        /\ (shHit # Panic /\ shHit # NoHit) => PointInBox(shBox, shHit.point)

----------------------------------------------------------------------------
(* Claims about concurrent Rotate::bounding_box calls *)

\* C28 as stated: under every interleaving of concurrent bounding_box calls
\* on one Rotate, each call returns the rotated box of the child for its
\* own time range.
C28_ReturnsBoxOfOwnRange ==
    \A t \in DOMAIN lkThreads :
        lkThreads[t].returned =>
            lkThreads[t].ret = RotatedBoxOfLevel(lkRotate, lkDepth, 1, lkThreads[t].pair)

\* C29: concurrent bounding_box calls never deadlock: on a Rotate whose
\* child may be a Rotate, every call that was started returns, so that in
\* the end no thread is left inside a call.
C29_EveryCallReturns ==
    <>[](\A t \in Threads : lkThreads[t].pc = "idle")

\* on the inner of two nested Rotate objects a thread waits for the write
\* guard of time_range while another thread holds a read guard of it
C29_Witness ==
    /\ lkDepth = 2
    /\ \E t, u \in DOMAIN lkThreads :
         /\ lkThreads[t].pc = "store_range" /\ lkThreads[t].level = 2
         /\ lkThreads[u].pc = "cached" /\ lkThreads[u].level = 2
         /\ u \in lkReaders[2]

----------------------------------------------------------------------------
(* Claims about ConstantMedium *)

\* the places where the line of the ray crosses the boundary
BoundaryRoots == SphereRoots(shape.boundary, shRay)

\* C26 as stated: ConstantMedium::hit reports a scatter only when the
\* boundary is crossed twice and entry < exit, for entry = max(t_min, first
\* crossing on the whole line) and exit = min(t_max, second crossing); the t
\* it returns lies in [entry, exit], hence in [t_min, t_max], and the
\* assertion on the entry holds on every call.
C26_ScatterBetweenEntryAndExit ==
    shPc = "queried" =>
        /\ shHit # Panic
        /\ shHit # NoHit =>
              /\ Cardinality(BoundaryRoots) = 2
              /\ LET entry == FMax(shTMin, SetMin(BoundaryRoots))
                     exit == FMin(shTMax, SetMax(BoundaryRoots))
                 IN  /\ entry < exit
                     /\ entry <= shHit.t /\ shHit.t <= exit
                     /\ shTMin <= shHit.t /\ shHit.t <= shTMax

----------------------------------------------------------------------------
(* Claims about the coordinates trace_single hands to the camera *)

\* C27 as stated: for every pixel of the image and every sample, the
\* coordinates (u, v) that trace_single passes to Camera::cast lie in
\* [0, 1] x [0, 1].
C27_SampleCoordinatesInUnitSquare ==
    \A k \in 1..Len(tsLog) :
        /\ 0 <= tsLog[k].u.num /\ tsLog[k].u.num <= tsLog[k].u.den
        /\ 0 <= tsLog[k].v.num /\ tsLog[k].v.num <= tsLog[k].v.den

----------------------------------------------------------------------------
(* Claims about the recursion of ray_color *)

\* the depth the outermost call was entered with: every recursive call
\* in progress lowered it by one
OutermostDepth == rcDepth + Len(rcStack)

\* max(d, 0)
DepthBudget(d) == IF d > 0 THEN d ELSE 0

\* C25: every call of ray_color terminates: a level makes at most one
\* recursive call, always with depth - 1; a call entered with depth d performs
\* at most max(d, 0) scene hit tests, itself and the calls below it together;
\* the chain of nested calls is never longer than d.
C25_RayColorTerminates ==
    /\ [][/\ Len(rcStack') > Len(rcStack) =>
               /\ rcPc = "call"
               /\ Len(rcStack') = Len(rcStack) + 1
               /\ rcDepth' = rcDepth - 1
          /\ rcPc = "ret" => (rcPc' # "call" /\ Len(rcStack') <= Len(rcStack))]_vars
    /\ [](/\ rcHitTests - Len(rcStack) <= DepthBudget(rcDepth)
          /\ rcHitTests <= DepthBudget(OutermostDepth)
          /\ Len(rcStack) <= DepthBudget(OutermostDepth))
    /\ <>(rcPc = "done")

\* a call entered with depth 2 or more returned after as many hit tests as
\* its depth: every level down to depth 1 recursed
C25_Witness ==
    /\ rcPc = "done" /\ rcDepth >= 2 /\ rcHitTests = rcDepth
    /\ rcLevel # Unset /\ rcLevel.case = "resumed"

----------------------------------------------------------------------------
(* Claims about the shape of the tree built by BVH::new *)

\* the objects stored beneath a node, from left to right
RECURSIVE Leaves(_)
Leaves(node) ==
    IF node.kind # "bvh" THEN <<node>>
    ELSE (IF node.left = NoChild THEN <<>> ELSE Leaves(node.left))
         \o (IF node.right = NoChild THEN <<>> ELSE Leaves(node.right))

\* the list holds the same objects as the other, each as often
IsPermutation(a, b) ==
    /\ Len(a) = Len(b)
    /\ \A i \in 1..Len(a) :
          Cardinality({j \in 1..Len(a) : a[j] = a[i]}) =
          Cardinality({j \in 1..Len(b) : b[j] = a[i]})

\* bounding_box returns Some(box) for the object
HasBox(o) == BoundingBox(o, TimeRange[1], TimeRange[2]) \notin {NoBox, Panic}

\* bounding_box returns a box with min <= max on every axis, so without NaN
HasValidBox(o) ==
    /\ HasBox(o)
    /\ LET box == BoundingBox(o, TimeRange[1], TimeRange[2])
       IN  \A i \in Axes : FLe(box.min[i], box.max[i])

\* the sort key of sort_objects_by_axis
BoxMin(o, axis) == BoundingBox(o, TimeRange[1], TimeRange[2]).min[axis]

\* the shape the three arms of BVH::new give a node over n objects: one
\* object and no right child; two objects in the order of some axis; two
\* sub-trees over the first n / 2 and the other n - n / 2 objects of the
\* list sorted on some axis
RECURSIVE SplitAtMidpoint(_)
SplitAtMidpoint(node) ==
    LET n == Len(Leaves(node)) IN
    CASE n = 1 -> node.left # NoChild /\ node.left.kind # "bvh" /\ node.right = NoChild
      [] n = 2 ->
           /\ node.left # NoChild /\ node.left.kind # "bvh"
           /\ node.right # NoChild /\ node.right.kind # "bvh"
           /\ \E axis \in Axes : FLe(BoxMin(node.left, axis), BoxMin(node.right, axis))
      [] n > 2 ->
           /\ node.left # NoChild /\ node.left.kind = "bvh"
           /\ node.right # NoChild /\ node.right.kind = "bvh"
           /\ Len(Leaves(node.left)) = n \div 2
           /\ Len(Leaves(node.right)) = n - (n \div 2)
           /\ Len(Leaves(node.left)) >= 1 /\ Len(Leaves(node.right)) >= 1
           /\ \E axis \in Axes :
                 \A i \in 1..Len(Leaves(node.left)), j \in 1..Len(Leaves(node.right)) :
                    FLe(BoxMin(Leaves(node.left)[i], axis), BoxMin(Leaves(node.right)[j], axis))
           /\ SplitAtMidpoint(node.left)
           /\ SplitAtMidpoint(node.right)
      [] OTHER -> FALSE

\* C23 as stated: BVH::new over N >= 1 objects that have a bounding box
\* returns a tree; every object is exactly one leaf of it, the halves have
\* floor(N/2) and N - floor(N/2) objects in the order of the sorted list,
\* and the two children of a pair are in the order of the axis.
C23_EveryBoxedListBuilds ==
    (sPc \in {"built", "panicked"} /\ Len(objects) >= 1 /\
     \A i \in 1..Len(objects) : HasBox(objects[i]))
        => /\ sPc = "built"
           /\ IsPermutation(Leaves(bvh), objects)
           /\ SplitAtMidpoint(bvh)

\* C23 amended: the same for N >= 1 objects whose boxes have min <= max on
\* every axis (so no NaN): BVH::new has an outcome, every outcome is a tree,
\* every object is exactly one leaf, and the tree is split at the midpoint of
\* the sorted list at every level.
C23_EveryValidListBuilds ==
    (Len(objects) >= 1 /\ \A i \in 1..Len(objects) : HasValidBox(objects[i]))
        => /\ sPc = "new" =>
                 /\ BVHNew(objects, TimeRange[1], TimeRange[2]) # {}
                 /\ Panic \notin BVHNew(objects, TimeRange[1], TimeRange[2])
           /\ sPc # "panicked"
           /\ sPc = "built" =>
                 /\ IsPermutation(Leaves(bvh), objects)
                 /\ SplitAtMidpoint(bvh)

\* a tree over three objects whose first object lies beyond the others on
\* every axis: the sort moved it to the right half
C23_Witness ==
    /\ sPc = "built" /\ Len(objects) = 3
    /\ \A i \in 1..3 : HasValidBox(objects[i])
    /\ objects[1].center = FarCenter
    /\ objects[2].center # FarCenter /\ objects[3].center # FarCenter
    /\ Leaves(bvh.right)[Len(Leaves(bvh.right))] = objects[1]
    /\ Len(Leaves(bvh.left)) = 1 /\ Len(Leaves(bvh.right)) = 2

----------------------------------------------------------------------------
(* Claims about the boxes of the tree built by BVH::new *)

\* the box a child answers: its own for an object, the stored one for a node
BoxOf(child) == BoundingBox(child, TimeRange[1], TimeRange[2])

\* the smallest box around two boxes, axis by axis
IsHullOf(box, a, b) ==
    \A i \in Axes : /\ box.min[i] = FMin(a.min[i], b.min[i])
                    /\ box.max[i] = FMax(a.max[i], b.max[i])

\* outer contains inner, by the comparisons of f64
ContainsBox(outer, inner) ==
    \A i \in Axes : FLe(outer.min[i], inner.min[i]) /\ FLe(inner.max[i], outer.max[i])

\* every node's box is the merge of its children's boxes, or the box of its
\* only object
RECURSIVE BoxesAreMerged(_)
BoxesAreMerged(node) ==
    IF node.kind # "bvh" THEN TRUE
    ELSE IF node.right = NoChild THEN node.box = BoxOf(node.left)
    ELSE /\ IsHullOf(node.box, BoxOf(node.left), BoxOf(node.right))
         /\ BoxesAreMerged(node.left)
         /\ BoxesAreMerged(node.right)

\* every node's box contains the box of every object beneath it
RECURSIVE BoxesContainLeaves(_)
BoxesContainLeaves(node) ==
    IF node.kind # "bvh" THEN TRUE
    ELSE /\ \A i \in 1..Len(Leaves(node)) : ContainsBox(node.box, BoxOf(Leaves(node)[i]))
         /\ node.left # NoChild => BoxesContainLeaves(node.left)
         /\ node.right # NoChild => BoxesContainLeaves(node.right)

----------------------------------------------------------------------------
(* Claims about the construction of rays *)

\* C22: no Ray with a zero-length direction exists: every construction
\* path (Ray::new, move_origin_by, Camera::cast, the materials' scatter,
\* Translate and Rotate) ends in the check of Ray::new, and an attempt to
\* build a ray with direction (0, 0, 0) panics instead of returning a Ray.
C22_NoZeroLengthDirection ==
    /\ ryPc = "live" =>
          /\ ryRay # Panic /\ ryRay # Unset
          /\ ryRay.direction # ZeroVec
          /\ ryRay.direction = ryAsked
    /\ ryAsked = ZeroVec => (ryPc = "panicked" /\ ryRay = Panic)

\* Metal::scatter asked for a ray of direction (0, 0, 0), the fuzz having
\* cancelled the reflection, and the program panicked
C22_Witness ==
    /\ ryPath = "Metal::scatter" /\ ryAsked = ZeroVec
    /\ ryPc = "panicked" /\ ryRay = Panic

----------------------------------------------------------------------------
(* Claims about the scene during a render *)

\* C21: the scene and its BVH are complete before the first pixel is traced,
\* and from then on no step of a rendering worker (trace_single, ray_color,
\* hit, scatter) changes the scene graph, the cached range and box of the
\* Rotate included.
C21_SceneUnchangedWhileRendering ==
    /\ [][(rdPhase \in {"render", "done"}) => (rdScene' = rdScene)]_vars
    /\ [][(rdPhase = "render") => (rdPhase' \in {"render", "done"})]_vars
    /\ []((rdTraced > 0 \/ \E w \in RenderWorkers : rdWorkers[w].pc # "idle") =>
             /\ rdPhase \in {"render", "done"}
             /\ rdScene.bvh # Unset
             /\ rdScene.time_range = TimeRange
             /\ rdScene.bounding_box # NoBox)

\* a worker holds a hit it got through the Rotate while another worker is
\* following a scattered ray
C21_Witness ==
    /\ rdPhase = "render" /\ rdScene.time_range = TimeRange
    /\ \E w1, w2 \in RenderWorkers :
          /\ rdWorkers[w1].pc = "scatter" /\ rdWorkers[w1].hit.material = 1
          /\ rdWorkers[w2].pc = "ray_color" /\ rdWorkers[w2].depth < rdMaxDepth
====
